---- MODULE Spec2Model ----
(***************************************************************************)
(* A model of the alpha_scanner core: the technical primitives             *)
(* (factors/utils.py), the transaction cost model (tccm.py) and the         *)
(* backtest / calibration loop (calibrator.py), over a panel keyed by      *)
(* (date, ticker).                                                          *)
(*                                                                          *)
(* Numbers.  A float is modelled as an exact extended rational <<n, d>>:    *)
(*   d > 0, gcd(n, d) = 1   the finite value n/d                            *)
(*   <<0, 0>>               NaN (pandas' "undefined")                       *)
(*   <<1, 0>>, <<-1, 0>>    +inf, -inf                                      *)
(* with IEEE-754 rules for the special values.  Rounding is not modelled.   *)
(***************************************************************************)
EXTENDS Integers, Sequences, FiniteSets, TLC

----------------------------------------------------------------------------
(* Extended rational arithmetic (numpy float64 semantics, exact).           *)

AbsI(i) == IF i < 0 THEN -i ELSE i

SgnI(i) == IF i < 0 THEN -1 ELSE IF i > 0 THEN 1 ELSE 0

RECURSIVE GCD(_, _)
GCD(a, b) == IF b = 0 THEN a ELSE GCD(b, a % b)

NaN == <<0, 0>>

PosInf == <<1, 0>>

NegInf == <<-1, 0>>

Zero == <<0, 1>>

One == <<1, 1>>

\* The normalised value n/d (d may be negative or zero).
Q(n, d) ==
    IF d = 0 THEN <<SgnI(n), 0>>
    ELSE LET g == GCD(AbsI(n), AbsI(d))
             s == SgnI(d)
         IN  <<(s * n) \div g, (s * d) \div g>>

I(n) == <<n, 1>>

IsNaN(x) == x = NaN

IsInf(x) == x[2] = 0 /\ x[1] # 0

IsFin(x) == x[2] > 0

Sgn(x) == SgnI(x[1])

Neg(x) == <<-x[1], x[2]>>

AbsV(x) == <<AbsI(x[1]), x[2]>>

Add(x, y) ==
    IF IsNaN(x) \/ IsNaN(y) THEN NaN
    ELSE IF IsInf(x) /\ IsInf(y) THEN (IF x = y THEN x ELSE NaN)
    ELSE IF IsInf(x) THEN x
    ELSE IF IsInf(y) THEN y
    ELSE LET g == GCD(x[2], y[2])
         IN  Q(x[1] * (y[2] \div g) + y[1] * (x[2] \div g), (x[2] \div g) * y[2])

Sub(x, y) == Add(x, Neg(y))

Mul(x, y) ==
    IF IsNaN(x) \/ IsNaN(y) THEN NaN
    ELSE IF IsInf(x) \/ IsInf(y) THEN <<Sgn(x) * Sgn(y), 0>>
    ELSE LET g1 == GCD(AbsI(x[1]), y[2])
             g2 == GCD(AbsI(y[1]), x[2])
         IN  Q((x[1] \div g1) * (y[1] \div g2), (x[2] \div g2) * (y[2] \div g1))

\* x / y: a finite non-zero value over 0 is +-inf, 0/0 and inf/inf are NaN.
Div(x, y) ==
    IF IsNaN(x) \/ IsNaN(y) THEN NaN
    ELSE IF IsInf(y) THEN (IF IsInf(x) THEN NaN ELSE Zero)
    ELSE IF IsInf(x) THEN <<Sgn(x) * (IF Sgn(y) < 0 THEN -1 ELSE 1), 0>>
    ELSE IF y[1] = 0 THEN <<Sgn(x), 0>>
    ELSE Mul(x, Q(y[2], y[1]))

\* a/b < c/d for b, d > 0, by comparing integer parts and then the
\* reciprocals of the fractional parts (no product of the operands is formed).
RECURSIVE LtFrac(_, _, _, _)
LtFrac(a, b, c, d) ==
    IF a \div b # c \div d THEN a \div b < c \div d
    ELSE IF c % d = 0 THEN FALSE
    ELSE IF a % b = 0 THEN TRUE
    ELSE LtFrac(d, c % d, b, a % b)

\* Comparisons: false whenever an operand is NaN.
Lt(x, y) ==
    /\ ~IsNaN(x) /\ ~IsNaN(y)
    /\ IF IsInf(x) \/ IsInf(y)
       THEN (IF IsInf(x) /\ IsInf(y) THEN x[1] < y[1]
             ELSE IF IsInf(x) THEN x[1] < 0 ELSE y[1] > 0)
       ELSE LtFrac(x[1], x[2], y[1], y[2])

Gt(x, y) == Lt(y, x)

Le(x, y) == ~IsNaN(x) /\ ~IsNaN(y) /\ ~Lt(y, x)

\* x ** a for an integer exponent a >= 0 (numpy.power): x ** 0 is 1 for
\* every x, NaN included (C99 pow).
RECURSIVE PowI(_, _)
PowI(x, a) == IF a = 0 THEN One ELSE Mul(x, PowI(x, a - 1))

\* The least k >= 0 with k * k >= n.
RECURSIVE CeilSqrtFrom(_, _)
CeilSqrtFrom(n, k) == IF k * k >= n THEN k ELSE CeilSqrtFrom(n, k + 1)

\* numpy.sqrt, exact whenever the root of n/d is rational (n*d a perfect
\* square) and otherwise rounded up to the next multiple of 1/d.
SqrtV(x) ==
    IF IsNaN(x) \/ x[1] < 0 THEN NaN
    ELSE IF IsInf(x) THEN PosInf
    ELSE Q(CeilSqrtFrom(x[1] * x[2], 0), x[2])

\* numpy.log, by its (1,1) Pade approximant at 1, 2(x-1)/(x+1): exact at 1,
\* strictly increasing, odd under x -> 1/x; log(0) = -inf, log(inf) = inf,
\* log of a negative value or NaN is NaN.
LogV(x) ==
    IF IsNaN(x) \/ x[1] < 0 THEN NaN
    ELSE IF IsInf(x) THEN PosInf
    ELSE IF x[1] = 0 THEN NegInf
    ELSE Mul(I(2), Div(Sub(x, One), Add(x, One)))

\* Series.fillna(0.0) on one value.
Fill0(x) == IF IsNaN(x) THEN Zero ELSE x

\* Series.replace(0, np.nan) on one value.
ZeroToNaN(x) == IF x = Zero THEN NaN ELSE x

----------------------------------------------------------------------------
(* Series.  A pandas Series indexed by (date, ticker) is a function from    *)
(* its own keys <<date, ticker>> to values; dates are integers in date      *)
(* order.  A value may be NaN; a key may also be absent, which differs: a   *)
(* per-ticker shift or rolling window runs over the rows a ticker has.      *)

EmptySeries == [key \in {} |-> NaN]

\* The function f as an explicit table (the same function).
Tab(f) == f @@ EmptySeries

DatesOf(s) == {key[1] : key \in DOMAIN s}

TickersOf(s) == {key[2] : key \in DOMAIN s}

\* Label lookup under index alignment: NaN for a label the series lacks.
At(s, key) == IF key \in DOMAIN s THEN s[key] ELSE NaN

\* a + b, a - b, a * b, a / b for two series: the result is indexed by the
\* union of the keys, NaN where either lacks the key.
SeriesAdd(a, b) ==
    Tab([key \in (DOMAIN a) \cup (DOMAIN b) |-> Add(At(a, key), At(b, key))])

SeriesSub(a, b) ==
    Tab([key \in (DOMAIN a) \cup (DOMAIN b) |-> Sub(At(a, key), At(b, key))])

SeriesMul(a, b) ==
    Tab([key \in (DOMAIN a) \cup (DOMAIN b) |-> Mul(At(a, key), At(b, key))])

SeriesDiv(a, b) ==
    Tab([key \in (DOMAIN a) \cup (DOMAIN b) |-> Div(At(a, key), At(b, key))])

\* a.abs(), a.fillna(0.0), a.replace(0, np.nan), np.log(a)
SeriesAbs(a) == Tab([key \in DOMAIN a |-> AbsV(a[key])])

FillNa0(a) == Tab([key \in DOMAIN a |-> Fill0(a[key])])

ReplaceZero(a) == Tab([key \in DOMAIN a |-> ZeroToNaN(a[key])])

SeriesLog(a) == Tab([key \in DOMAIN a |-> LogV(a[key])])

\* The sum of f over the finite set S, skipping NaN (sum with skipna=True);
\* 0 when nothing is left.
RECURSIVE SumSkipNaN(_, _)
SumSkipNaN(S, f) ==
    IF S = {} THEN Zero
    ELSE LET x == CHOOSE y \in S : TRUE
         IN  Add(Fill0(f[x]), SumSkipNaN(S \ {x}, f))

\* The plain sum of f over S (NaN propagates).
RECURSIVE SumAll(_, _)
SumAll(S, f) ==
    IF S = {} THEN Zero
    ELSE LET x == CHOOSE y \in S : TRUE
         IN  Add(f[x], SumAll(S \ {x}, f))

\* The dates on which ticker k has a row of s.
RowsOf(s, k) == {key[1] : key \in {x \in DOMAIN s : x[2] = k}}

\* The dates of ticker k's last `window` rows up to date t (fewer when the
\* ticker has fewer rows by then).
WindowRows(s, k, t, window) ==
    {u \in RowsOf(s, k) :
        u <= t /\ Cardinality({v \in RowsOf(s, k) : u < v /\ v <= t}) < window}

\* A window that counts from the ticker's first row on (min_periods=1).
WindowPartial(s, k, t, window) ==
    /\ window >= 1
    /\ \A u \in WindowRows(s, k, t, window) : IsFin(s[<<u, k>>])

\* rolling(window, min_periods=window): a window counts when it holds
\* `window` rows, every one of them a finite number (the rolling aggregations
\* read +-inf as NaN, and a NaN is no valid observation).
WindowFull(s, k, t, window) ==
    /\ window >= 1
    /\ Cardinality(WindowRows(s, k, t, window)) = window
    /\ \A u \in WindowRows(s, k, t, window) : IsFin(s[<<u, k>>])

MeanOfRows(s, k, W) ==
    Div(SumAll(W, [u \in W |-> s[<<u, k>>]]), I(Cardinality(W)))

\* series.groupby(level="ticker").rolling(window, min_periods=window).mean()
\*       .reset_index(level=0, drop=True)
RollingMean(s, window) ==
    Tab([key \in DOMAIN s |->
        IF WindowFull(s, key[2], key[1], window)
        THEN MeanOfRows(s, key[2], WindowRows(s, key[2], key[1], window))
        ELSE NaN])

\* ... .rolling(window, min_periods=window).std(): the sample deviation
\* (ddof=1), undefined for a window of one row.
RollingStd(s, window) ==
    Tab([key \in DOMAIN s |->
        IF WindowFull(s, key[2], key[1], window) /\ window >= 2
        THEN LET W == WindowRows(s, key[2], key[1], window)
                 m == MeanOfRows(s, key[2], W)
                 sq == [u \in W |-> Mul(Sub(s[<<u, key[2]>>], m),
                                        Sub(s[<<u, key[2]>>], m))]
             IN  SqrtV(Div(SumAll(W, sq), I(window - 1)))
        ELSE NaN])

\* The order of the rows of a sorted (date, ticker) index.
RowBefore(a, b) == a[1] < b[1] \/ (a[1] = b[1] /\ a[2] = "A" /\ b[2] # "A")

\* series.shift(n), without the groupby: the value n rows earlier in the
\* sorted index, whatever its ticker.
FlatShift(s, n) ==
    Tab([key \in DOMAIN s |->
        LET prev == {x \in DOMAIN s :
                        RowBefore(x, key) /\
                        Cardinality({y \in DOMAIN s :
                                        RowBefore(x, y) /\
                                        (RowBefore(y, key) \/ y = key)}) = n}
        IN  IF prev = {} THEN NaN ELSE s[CHOOSE x \in prev : TRUE]])

\* series.groupby(level="ticker").shift(n): the value n rows earlier in the
\* ticker's own rows, NaN when there is none.
GroupShift(s, n) ==
    Tab([key \in DOMAIN s |->
        LET prev == {u \in RowsOf(s, key[2]) :
                        u < key[1] /\
                        Cardinality({v \in RowsOf(s, key[2]) :
                                        u < v /\ v <= key[1]}) = n}
        IN  IF prev = {} THEN NaN ELSE s[<<CHOOSE u \in prev : TRUE, key[2]>>]])

\* series.unstack("ticker"): the dates x tickers grid, NaN where s has no row.
Unstack(s) == Tab([key \in DatesOf(s) \X TickersOf(s) |-> At(s, key)])

\* frame.stack(): back to a series, dropping the NaN cells.
Stack(wide) == Tab([key \in {x \in DOMAIN wide : ~IsNaN(wide[x])} |-> wide[key]])

\* frame.shift(1) on a dates x tickers grid: the previous date's row.
WideShift1(wide) ==
    Tab([key \in DOMAIN wide |->
        LET before == {u \in DatesOf(wide) : u < key[1]}
        IN  IF before = {} THEN NaN
            ELSE wide[<<CHOOSE u \in before : \A v \in before : v <= u, key[2]>>]])

\* frame.sum(axis=1) of a dates x tickers grid (NaN skipped), by date.
RowSum(wide) ==
    Tab([t \in DatesOf(wide) |->
        SumSkipNaN({key \in DOMAIN wide : key[1] = t}, wide)])

----------------------------------------------------------------------------
(* factors/utils.py                                                         *)

simple_moving_average(series, window) == RollingMean(series, window)

\* prev = series.groupby(level="ticker").shift(window)
\* (series / prev - 1.0) * 100.0
rate_of_change(series, window) ==
    LET prev == GroupShift(series, window)
        ratio == SeriesDiv(series, prev)
    IN  Tab([key \in DOMAIN ratio |-> Mul(Sub(ratio[key], One), I(100))])

\* The greatest of the values of S that are not NaN, NaN when there is none
\* (DataFrame.max(axis=1)).
MaxSkipNaN(S) ==
    LET valid == {x \in S : ~IsNaN(x)}
    IN  IF valid = {} THEN NaN ELSE CHOOSE x \in valid : \A y \in valid : Le(y, x)

MinSkipNaN(S) ==
    LET valid == {x \in S : ~IsNaN(x)}
    IN  IF valid = {} THEN NaN ELSE CHOOSE x \in valid : \A y \in valid : Le(x, y)

\* atr: the rolling mean of the true range.  ensure_multiindex(df.copy())
\* sorts the rows, which leaves a function of (date, ticker) as it is.
atr(df, window) ==
    LET high == df.high
        low == df.low
        prev_close == GroupShift(df.close, 1)
        tr == Tab([key \in DOMAIN df.close |->
                  MaxSkipNaN({Sub(At(high, key), At(low, key)),
                              AbsV(Sub(At(high, key), prev_close[key])),
                              AbsV(Sub(At(low, key), prev_close[key]))})])
    IN  RollingMean(tr, window)

\* The callables the model passes as func, by name, on a window's values.
ApplyFunc(func, values) ==
    IF func = "max" THEN MaxSkipNaN(values) ELSE MinSkipNaN(values)

\* series.groupby(level="ticker").rolling(window, min_periods=window)
\*       .apply(func, raw=False).reset_index(level=0, drop=True)
rolling_apply_grouped(series, window, func) ==
    Tab([key \in DOMAIN series |->
        IF WindowFull(series, key[2], key[1], window)
        THEN ApplyFunc(func, {series[<<u, key[2]>>] :
                                 u \in WindowRows(series, key[2], key[1], window)})
        ELSE NaN])

\* group.rank(method="average") for one member: its place among the
\* group's defined values, ties sharing the mean of their places; NaN for an
\* undefined value.
AverageRank(series, group, key) ==
    LET less == {x \in group : ~IsNaN(series[x]) /\ Lt(series[x], series[key])}
        same == {x \in group : series[x] = series[key]}
    IN  IF IsNaN(series[key]) THEN NaN
        ELSE Q(2 * Cardinality(less) + Cardinality(same) + 1, 2)

\* lower + (ranks - 1.0) * (upper - lower) / (n - 1.0)
ScaledRank(rank, n, lower, upper) ==
    Add(lower, Div(Mul(Sub(rank, One), Sub(upper, lower)), I(n - 1)))

\* rank_normalize: per date, 0.0 for a cross-section of at most one row,
\* else the scaled average rank, n being the number of the date's rows.
rank_normalize(series, lower, upper) ==
    Tab([key \in DOMAIN series |->
        LET group == {x \in DOMAIN series : x[1] = key[1]}
            n == Cardinality(group)
        IN  IF n <= 1 THEN Zero
            ELSE ScaledRank(AverageRank(series, group, key), n, lower, upper)])

\* A table is [names, columns, rows]: the names of the index levels (one
\* empty name for a flat index), the set of column names, and the rows in
\* their order, each [key, cols] with one key part per index level and one
\* value per column.

\* The order of sort_index on a (date, ticker) key.
KeyBefore(a, b) == a[1] < b[1] \/ (a[1] = b[1] /\ a[2] = "A" /\ b[2] # "A")

\* The row put in its place among sorted rows, after the rows of equal key.
RECURSIVE InsertRow(_, _)
InsertRow(rows, row) ==
    IF rows = << >> THEN <<row>>
    ELSE IF KeyBefore(row.key, rows[Len(rows)].key)
         THEN Append(InsertRow(SubSeq(rows, 1, Len(rows) - 1), row), rows[Len(rows)])
         ELSE Append(rows, row)

\* The row put in its place among sorted rows, before the rows of equal key.
RECURSIVE InsertRowFirst(_, _)
InsertRowFirst(rows, row) ==
    IF rows = << >> THEN <<row>>
    ELSE IF KeyBefore(rows[Len(rows)].key, row.key)
         THEN Append(rows, row)
         ELSE Append(InsertRowFirst(SubSeq(rows, 1, Len(rows) - 1), row), rows[Len(rows)])

\* A sort that reverses the rows of equal key.
RECURSIVE SortIndexTiesReversed(_)
SortIndexTiesReversed(rows) ==
    IF rows = << >> THEN << >>
    ELSE InsertRowFirst(SortIndexTiesReversed(SubSeq(rows, 1, Len(rows) - 1)),
                        rows[Len(rows)])

\* df.sort_index(): the rows by key, rows of equal key in their order.
RECURSIVE SortIndex(_)
SortIndex(rows) ==
    IF rows = << >> THEN << >>
    ELSE InsertRow(SortIndex(SubSeq(rows, 1, Len(rows) - 1)), rows[Len(rows)])

\* The position of a level name in the index names.
LevelOf(names, name) == CHOOSE i \in DOMAIN names : names[i] = name

IsMultiIndex(names) == Len(names) >= 2

NamesOf(names) == {names[i] : i \in DOMAIN names}

ensure_multiindex(df) ==
    IF IsMultiIndex(df.names) /\ {"date", "ticker"} \subseteq NamesOf(df.names)
    THEN IF df.names # <<"date", "ticker">>
         THEN \* reorder_levels takes an order naming every level
              IF Len(df.names) # 2
              THEN [outcome |-> "raise", error |-> "AssertionError"]
              ELSE [outcome |-> "return",
                    df |-> [names |-> <<"date", "ticker">>,
                            columns |-> df.columns,
                            rows |-> SortIndex(
                                [i \in DOMAIN df.rows |->
                                    [key |-> <<df.rows[i].key[LevelOf(df.names, "date")],
                                               df.rows[i].key[LevelOf(df.names, "ticker")]>>,
                                     cols |-> df.rows[i].cols]])]]
         ELSE [outcome |-> "return", df |-> [df EXCEPT !.rows = SortIndex(df.rows)]]
    ELSE IF {"date", "ticker"} \subseteq df.columns
    THEN LET rest == df.columns \ {"date", "ticker"}
         IN  [outcome |-> "return",
              df |-> [names |-> <<"date", "ticker">>,
                      columns |-> rest,
                      rows |-> SortIndex(
                          [i \in DOMAIN df.rows |->
                              [key |-> <<df.rows[i].cols.date, df.rows[i].cols.ticker>>,
                               cols |-> [c \in rest |-> df.rows[i].cols[c]]]])]]
    ELSE [outcome |-> "raise", error |-> "ValueError"]

----------------------------------------------------------------------------
(* factors/rs.py, trend.py, squeeze.py, momentum.py, volume.py.  The        *)
(* window lengths of the configurations are scaled to the model's panels,   *)
(* keeping their order; the blend weights are the code's.                   *)

\* c * series, for a float c.
Scale(c, a) == Tab([key \in DOMAIN a |-> Mul(c, a[key])])

\* np.sign(series)
SeriesSign(a) ==
    Tab([key \in DOMAIN a |-> IF IsNaN(a[key]) THEN NaN ELSE I(Sgn(a[key]))])

\* (a < b).astype(float): 1.0 where a is below b, 0.0 elsewhere (a
\* comparison with NaN is false).
SeriesLess(a, b) ==
    Tab([key \in DOMAIN a |-> IF Lt(a[key], At(b, key)) THEN One ELSE Zero])

\* The volatility proxy's rolling window in calibrator.py: 20 in the code,
\* scaled to the model's panel lengths.
VolWindow == 2

\* RSConfig(): 21, 63, 126, 252 in the code.  The longest horizon stays
\* longer than the volatility proxy's window, as 252 is longer than 20.
DefaultRSConfig ==
    [short_window |-> 1, mid_window |-> 1, long_window |-> 2,
     very_long_window |-> VolWindow + 1]

\* The sub-indicators of compute_rs_score without a benchmark (lines 72-76).
RSIndicators(df, config) ==
    [rs_short |-> rate_of_change(df.close, config.short_window),
     rs_mid |-> rate_of_change(df.close, config.mid_window),
     rs_long |-> rate_of_change(df.close, config.long_window),
     rs_vlong |-> rate_of_change(df.close, config.very_long_window)]

\* The blend of lines 90-95: no term is filled.
compute_rs_score(df, config) ==
    LET ind == RSIndicators(df, config)
    IN  SeriesAdd(SeriesAdd(SeriesAdd(Scale(Q(1, 10), ind.rs_short),
                                      Scale(Q(3, 10), ind.rs_mid)),
                            Scale(Q(3, 10), ind.rs_long)),
                  Scale(Q(3, 10), ind.rs_vlong))

\* TrendConfig(): 20, 50, 200, 20 in the code.
DefaultTrendConfig ==
    [sma_short |-> 1, sma_med |-> 1, sma_long |-> 2, slope_window |-> 1]

\* The sub-indicators of compute_trend_score (lines 51-71).
TrendIndicators(df, config) ==
    LET close == df.close
        sma_short == simple_moving_average(close, config.sma_short)
        sma_med == simple_moving_average(close, config.sma_med)
        sma_long == simple_moving_average(close, config.sma_long)
        slope == IF config.slope_window > 1 THEN config.slope_window ELSE 1
    IN  [cross_state |-> SeriesSign(SeriesSub(sma_med, sma_long)),
         dist_long |-> SeriesDiv(SeriesSub(close, sma_long), ReplaceZero(sma_long)),
         slope_med |-> Scale(Q(1, slope),
                             SeriesSub(sma_med, GroupShift(sma_med, config.slope_window))),
         slope_long |-> Scale(Q(1, slope),
                              SeriesSub(sma_long, GroupShift(sma_long, config.slope_window))),
         pos_short |-> SeriesDiv(SeriesSub(close, sma_short), ReplaceZero(sma_short))]

compute_trend_score(df, config) ==
    LET ind == TrendIndicators(df, config)
    IN  SeriesAdd(SeriesAdd(SeriesAdd(SeriesAdd(
            Scale(Q(35, 100), FillNa0(ind.cross_state)),
            Scale(Q(25, 100), FillNa0(ind.dist_long))),
            Scale(Q(2, 10), FillNa0(ind.slope_med))),
            Scale(Q(1, 10), FillNa0(ind.slope_long))),
            Scale(Q(1, 10), FillNa0(ind.pos_short)))

\* SqueezeConfig(): windows 20, 20, 20, 252 in the code.
DefaultSqueezeConfig ==
    [bb_window |-> 2, bb_std |-> I(2), kc_window |-> 2, kc_mult |-> Q(3, 2),
     atr_short |-> 2, atr_long |-> 3]

\* The sub-indicators of compute_squeeze_score (lines 48-80).
SqueezeIndicators(df, config) ==
    LET close == df.close
        mid_bb == simple_moving_average(close, config.bb_window)
        rolling_std == RollingStd(close, config.bb_window)
        upper_bb == SeriesAdd(mid_bb, Scale(config.bb_std, rolling_std))
        lower_bb == SeriesSub(mid_bb, Scale(config.bb_std, rolling_std))
        bb_width == SeriesDiv(SeriesSub(upper_bb, lower_bb), ReplaceZero(mid_bb))
        mid_kc == simple_moving_average(close, config.kc_window)
        atr_series == atr(df, config.kc_window)
        upper_kc == SeriesAdd(mid_kc, Scale(config.kc_mult, atr_series))
        lower_kc == SeriesSub(mid_kc, Scale(config.kc_mult, atr_series))
        kc_width == SeriesDiv(SeriesSub(upper_kc, lower_kc), ReplaceZero(mid_kc))
        atr_short == atr(df, config.atr_short)
        atr_long == atr(df, config.atr_long)
    IN  [squeeze_flag |-> SeriesLess(bb_width, kc_width),
         vol_ratio |-> SeriesDiv(atr_short, ReplaceZero(atr_long)),
         range_over_atr |-> SeriesDiv(SeriesSub(df.high, df.low),
                                      ReplaceZero(atr_short))]

compute_squeeze_score(df, config) ==
    LET ind == SqueezeIndicators(df, config)
    IN  SeriesAdd(SeriesAdd(
            Scale(Q(4, 10), FillNa0(ind.squeeze_flag)),
            Scale(Q(3, 10), Scale(I(-1), FillNa0(ind.vol_ratio)))),
            Scale(Q(3, 10), FillNa0(ind.range_over_atr)))

\* MomentumConfig(): 10, 20 in the code.
DefaultMomentumConfig == [roc_short |-> 1, roc_long |-> 2]

\* The sub-indicators of compute_momentum_score (lines 98-99).
MomentumIndicators(df, config) ==
    [roc_short |-> rate_of_change(df.close, config.roc_short),
     roc_long |-> rate_of_change(df.close, config.roc_long)]

compute_momentum_score(df, config) ==
    LET ind == MomentumIndicators(df, config)
    IN  SeriesAdd(Scale(Q(6, 10), FillNa0(ind.roc_short)),
                  Scale(Q(4, 10), FillNa0(ind.roc_long)))

\* VolumeConfig(): 20, 50, 20 in the code.
DefaultVolumeConfig == [vol_ma_short |-> 1, vol_ma_long |-> 2, roc_window |-> 1]

\* The sub-indicators of compute_volume_score (lines 45-56).
VolumeIndicators(df, config) ==
    LET volume == df.volume
        vol_ma_short == simple_moving_average(volume, config.vol_ma_short)
        vol_ma_long == simple_moving_average(volume, config.vol_ma_long)
        vol_roc == rate_of_change(volume, config.roc_window)
        price_roc == rate_of_change(df.close, config.roc_window)
    IN  [vol_ratio_short |-> SeriesDiv(volume, ReplaceZero(vol_ma_short)),
         vol_ratio_long |-> SeriesDiv(volume, ReplaceZero(vol_ma_long)),
         vol_roc |-> vol_roc,
         divergence |-> SeriesSub(price_roc, vol_roc)]

compute_volume_score(df, config) ==
    LET ind == VolumeIndicators(df, config)
    IN  SeriesAdd(SeriesAdd(SeriesAdd(
            Scale(Q(35, 100), FillNa0(ind.vol_ratio_short)),
            Scale(Q(25, 100), FillNa0(ind.vol_ratio_long))),
            Scale(Q(25, 100), FillNa0(ind.vol_roc))),
            Scale(Q(15, 100), Scale(I(-1), FillNa0(ind.divergence))))

----------------------------------------------------------------------------
(* factor_engine.py                                                         *)

\* FactorEngineConfig()
DefaultFactorEngineConfig ==
    [use_rs |-> TRUE, use_trend |-> TRUE, use_squeeze |-> TRUE,
     use_momentum |-> TRUE, use_volume |-> TRUE]

\* The keys of raw_factors, in insertion order, for a configuration.
RawColumns(config) ==
    (IF config.use_rs THEN {"RS_raw"} ELSE {})
    \cup (IF config.use_trend THEN {"Trend_raw"} ELSE {})
    \cup (IF config.use_squeeze THEN {"Squeeze_raw"} ELSE {})
    \cup (IF config.use_momentum THEN {"Momentum_raw"} ELSE {})
    \cup (IF config.use_volume THEN {"Volume_raw"} ELSE {})

RawFactor(df, col) ==
    IF col = "RS_raw" THEN compute_rs_score(df, DefaultRSConfig)
    ELSE IF col = "Trend_raw" THEN compute_trend_score(df, DefaultTrendConfig)
    ELSE IF col = "Squeeze_raw" THEN compute_squeeze_score(df, DefaultSqueezeConfig)
    ELSE IF col = "Momentum_raw" THEN compute_momentum_score(df, DefaultMomentumConfig)
    ELSE compute_volume_score(df, DefaultVolumeConfig)

\* col.replace("_raw", "_score")
ScoreColumn(col) ==
    IF col = "RS_raw" THEN "RS_score"
    ELSE IF col = "Trend_raw" THEN "Trend_score"
    ELSE IF col = "Squeeze_raw" THEN "Squeeze_score"
    ELSE IF col = "Momentum_raw" THEN "Momentum_score"
    ELSE "Volume_score"

\* compute_factor_matrix without benchmark prices.  pd.DataFrame({}) has no
\* rows, so giving it the panel's index (line 79) raises ValueError unless
\* the panel has no rows either.  The raw series carry the panel's keys in
\* the panel's sorted order, so the index assignments keep each value at its
\* key.
compute_factor_matrix(df, config) ==
    LET cols == RawColumns(config)
        raw_df == [col \in cols |-> RawFactor(df, col)]
    IN  IF cols = {} /\ DOMAIN df.close # {}
        THEN [outcome |-> "raise", error |-> "ValueError"]
        ELSE [outcome |-> "return",
              scores |-> [c \in {ScoreColumn(col) : col \in cols} |->
                           LET col == CHOOSE x \in cols : ScoreColumn(x) = c
                           IN  rank_normalize(raw_df[col], I(-1), One)]]

----------------------------------------------------------------------------
(* tccm.py                                                                  *)

\* Python's None, where an object may be absent.
None == [none |-> TRUE]

\* TCCMConfig(): the dataclass defaults, scaled to the model: the exponent
\* is an integer here (0.75 is carried as 1), the window fits the model's
\* short panels (20 is carried as 2), and the calibration constant 0.005 is
\* carried as 1/2 to keep the exact arithmetic within 32-bit integers.
DefaultTCCMConfig ==
    [commission_per_share |-> Zero,
     calibration_constant |-> Q(1, 2),
     impact_alpha |-> 1,
     adv_window |-> 2]

compute_adv(volume, window) == RollingMean(volume, window)

\* The share change of a purchase, 0 for a sale.
BoughtShares(x) == IF IsNaN(x) THEN NaN ELSE IF x[1] < 0 THEN Zero ELSE x

\* (positions_next - positions_prev).abs() on one value.
DeltaShares(x) == AbsV(x)

\* The market impact term of estimate_trade_costs, before fillna.
ImpactTerm(positions_prev, positions_next, prices, volume, volatility, config) ==
    LET change == SeriesSub(positions_next, positions_prev)
        delta_shares == Tab([key \in DOMAIN change |-> DeltaShares(change[key])])
        dollar_size == SeriesMul(delta_shares, prices)
        adv == compute_adv(volume, config.adv_window)
        size_over_adv == SeriesDiv(dollar_size, ReplaceZero(adv))
        scaled == [key \in DOMAIN size_over_adv |->
                      Mul(config.calibration_constant,
                          PowI(size_over_adv[key], config.impact_alpha))]
    IN  SeriesMul(scaled, volatility)

estimate_trade_costs(positions_prev, positions_next, prices, volume, volatility, cfg) ==
    LET config == IF cfg = None THEN DefaultTCCMConfig ELSE cfg
        change == SeriesSub(positions_next, positions_prev)
        delta_shares == Tab([key \in DOMAIN change |-> DeltaShares(change[key])])
        commission == [key \in DOMAIN delta_shares |->
                          Mul(delta_shares[key], config.commission_per_share)]
        mic == ImpactTerm(positions_prev, positions_next, prices, volume,
                          volatility, config)
    IN  SeriesAdd(commission, FillNa0(mic))

\* A capacity usage over the day's own volume instead of the trailing ADV.
CapacityOverVolume(positions, prices, volume, cfg) ==
    SeriesDiv(SeriesMul(SeriesAbs(positions), prices), ReplaceZero(volume))

compute_capacity_usage(positions, prices, volume, cfg) ==
    LET config == IF cfg = None THEN DefaultTCCMConfig ELSE cfg
        dollar_size == SeriesMul(SeriesAbs(positions), prices)
        adv == compute_adv(volume, config.adv_window)
    IN  SeriesDiv(dollar_size, ReplaceZero(adv))

----------------------------------------------------------------------------
(* data_snapshot.py and risk.py                                             *)

\* A comparison that finds no dtype different.
NeverDiffers(actual, expected) == FALSE

\* actual != expected, on dtype strings
DtypeDiffers(actual, expected) == actual # expected

\* validate_schema: df maps its column names to their dtype strings, and
\* schema is schema.dtypes as its (column, dtype) items in order.
validate_schema(df, schema) ==
    LET missing_cols == {schema[i][1] : i \in DOMAIN schema} \ DOMAIN df
        mismatched == {i \in DOMAIN schema :
                          /\ schema[i][1] \in DOMAIN df
                          /\ DtypeDiffers(df[schema[i][1]], schema[i][2])}
    IN  IF missing_cols # {}
        THEN [outcome |-> "raise", error |-> "ValueError",
              message |-> [missing |-> missing_cols]]
        ELSE IF mismatched # {}
        THEN LET i == CHOOSE x \in mismatched : \A y \in mismatched : x <= y
             IN  [outcome |-> "raise", error |-> "ValueError",
                  message |-> [column |-> schema[i][1],
                               actual |-> df[schema[i][1]],
                               expected |-> schema[i][2]]]
        ELSE [outcome |-> "return"]

\* KillSwitchConfig()
DefaultKillSwitchConfig == [atr_multiplier |-> I(2), hist_vol_multiplier |-> Q(3, 2)]

\* Python's max(a, b): b where b > a, else a (so a NaN a is kept).
PyMax(a, b) == IF Gt(b, a) THEN b ELSE a

\* A comparison that is also true at the threshold.
ReachesThreshold(drop, threshold) == Le(threshold, drop)

\* sector_drop_1w > threshold
ExceedsThreshold(drop, threshold) == Gt(drop, threshold)

should_activate_kill_switch(sector_drop_1w, atr_value, hist_vol_std, cfg) ==
    LET config == IF cfg = None THEN DefaultKillSwitchConfig ELSE cfg
        threshold == PyMax(Mul(config.atr_multiplier, atr_value),
                           Mul(config.hist_vol_multiplier, hist_vol_std))
    IN  ExceedsThreshold(sector_drop_1w, threshold)

----------------------------------------------------------------------------
(* calibrator.py                                                            *)

\* Positions that skip the normalisation by the date's sum of absolute
\* scores.
PositionsUnnormalized(scores, prices) ==
    Stack(FillNa0(SeriesDiv(FillNa0(Unstack(scores)), ReplaceZero(Unstack(prices)))))

\* _positions_from_scores: per date, scores over the date's sum of absolute
\* scores (0 where that sum is 0), times the unit capital, over the price
\* (0 where the price is 0 or undefined).
positions_from_scores(scores, prices) ==
    LET scores_wide == Unstack(scores)
        absSum == RowSum(SeriesAbs(scores_wide))
        weights == [key \in DOMAIN scores_wide |->
                       Fill0(Div(scores_wide[key], ZeroToNaN(absSum[key[1]])))]
        capital == One
        dollar_positions == [key \in DOMAIN weights |-> Mul(weights[key], capital)]
        prices_wide == Unstack(prices)
        shares == FillNa0(SeriesDiv(dollar_positions, ReplaceZero(prices_wide)))
    IN  Stack(shares)

\* _compute_returns: log(price / previous date's price) on the wide grid.
compute_returns(prices) ==
    LET prices_wide == Unstack(prices)
        rets == SeriesLog(SeriesDiv(prices_wide, WideShift1(prices_wide)))
    IN  Stack(rets)

\* The columns of the factor matrix a weight vector names.
KnownCols(weights, factor_scores) == (DOMAIN weights) \cap (DOMAIN factor_scores)

\* sum(w * factor_scores[col] for col, w in weights.items()
\*     if col in factor_scores.columns), over a non-empty selection.
RECURSIVE WeightedSum(_, _, _)
WeightedSum(cols, weights, factor_scores) ==
    LET col == CHOOSE c \in cols : TRUE
        term == [key \in DOMAIN factor_scores[col] |->
                    Mul(weights[col], factor_scores[col][key])]
    IN  IF cols = {col} THEN term
        ELSE SeriesAdd(WeightedSum(cols \ {col}, weights, factor_scores), term)

\* Series.mean() (NaN skipped; NaN for an empty series).
SeriesMean(s) ==
    LET valid == {t \in DOMAIN s : ~IsNaN(s[t])}
    IN  Div(SumAll(valid, s), I(Cardinality(valid)))

\* The square of Series.std(ddof=0), the population variance (NaN skipped).
SeriesVar0(s) ==
    LET valid == {t \in DOMAIN s : ~IsNaN(s[t])}
        m == SeriesMean(s)
        sq == [t \in valid |-> Mul(Sub(s[t], m), Sub(s[t], m))]
    IN  Div(SumAll(valid, sq), I(Cardinality(valid)))

\* A Sharpe value x = mu / sigma, with mu = mean * 252 and sigma = std *
\* sqrt(252), is carried as x*|x| / 252 = mean*|mean| / std^2: the map is a
\* strictly increasing bijection of the reals that fixes 0 and +-inf, so
\* order, equality and sign are those of x, and the value stays rational
\* although sigma is a square root.
SignedSquareOfRatio(mean, var) == Mul(I(Sgn(mean)), Div(Mul(mean, mean), var))

\* The least common multiple of the denominators of s over the set S.
RECURSIVE CommonDen(_, _)
CommonDen(S, s) ==
    IF S = {} THEN 1
    ELSE LET t == CHOOSE u \in S : TRUE
             rest == CommonDen(S \ {t}, s)
         IN  (rest \div GCD(rest, s[t][2])) * s[t][2]

RECURSIVE CommonDiv(_, _)
CommonDiv(S, n) ==
    IF S = {} THEN 0
    ELSE LET t == CHOOSE u \in S : TRUE
         IN  GCD(CommonDiv(S \ {t}, n), AbsI(n[t]))

\* A finite series as coprime integers times one positive factor; the ratio
\* mean / std of a series does not change when the series is scaled so.
Coprime(s) ==
    LET den == CommonDen(DOMAIN s, s)
        n == [t \in DOMAIN s |-> s[t][1] * (den \div s[t][2])]
        g == CommonDiv(DOMAIN s, n)
    IN  Tab([t \in DOMAIN s |-> I(IF g = 0 THEN 0 ELSE n[t] \div g)])

\* mu = mean * 252; sigma = std(ddof=0) * sqrt(252);
\* sharpe = mu / sigma if sigma > 0 else 0.0
\* (sigma > 0 exactly when the variance is; a NaN variance compares false).
SharpeOf(port_ret_net) ==
    LET valid == {t \in DOMAIN port_ret_net : ~IsNaN(port_ret_net[t])}
        finite == \A t \in valid : IsFin(port_ret_net[t])
        s == IF finite THEN Coprime([t \in valid |-> port_ret_net[t]])
             ELSE port_ret_net
        mean == SeriesMean(s)
        var == SeriesVar0(s)
    IN  IF Gt(var, Zero) THEN SignedSquareOfRatio(mean, var) ELSE Zero

\* Positions that earn the return of their own date.
SameDayPositions(positions) == FillNa0(GroupShift(positions, 0))

\* positions.groupby(level="ticker").shift(1).fillna(0.0)
RealizedPositions(positions) == FillNa0(GroupShift(positions, 1))

\* port_ret = (positions_prev_wide * asset_returns_wide).sum(axis=1)
GrossReturns(positions_prev, asset_returns) ==
    RowSum(SeriesMul(Unstack(positions_prev), Unstack(asset_returns)))

\* Net returns that leave the costs out.
GrossAsNet(port_ret, trade_costs) == port_ret

\* port_ret_net = port_ret - trade_costs.unstack("ticker").sum(axis=1)
\*                              .reindex(port_ret.index).fillna(0.0)
NetReturns(port_ret, trade_costs) ==
    LET costs_by_date == RowSum(Unstack(trade_costs))
        trade_costs_daily == [t \in DOMAIN port_ret |->
                                 IF t \in DOMAIN costs_by_date
                                 THEN Fill0(costs_by_date[t]) ELSE Zero]
    IN  Tab([t \in DOMAIN port_ret |-> Sub(port_ret[t], trade_costs_daily[t])])

\* Lines 88-89 of backtest_weights: a missing tc_config is created in the
\* caller's BacktestConfig object.
LazyTCCMConfig(bt_config) ==
    IF bt_config.tc_config = None
    THEN [bt_config EXCEPT !.tc_config = DefaultTCCMConfig]
    ELSE bt_config

\* backtest_weights from line 91 on, for the TCCMConfig tc that line 89 has
\* left in bt_config: a record of the values it computes, or "raise" when
\* the weight vector selects no column (sum() of nothing is the int 0, and
\* line 98 sets .name on it: AttributeError).  factor_scores is what
\* compute_factor_matrix(df) returned at line 91, column by column.
backtest_weights(close, volume, factor_scores, weights, tc) ==
    IF KnownCols(weights, factor_scores) = {} THEN [outcome |-> "raise"]
    ELSE
    LET composite == WeightedSum(KnownCols(weights, factor_scores), weights, factor_scores)
        asset_returns == compute_returns(close)
        positions == positions_from_scores(composite, close)
        positions_prev == RealizedPositions(positions)
        vol_proxy == RollingStd(asset_returns, VolWindow)
        trade_costs == estimate_trade_costs(positions_prev, positions, close,
                                            volume, vol_proxy, tc)
        port_ret == GrossReturns(positions_prev, asset_returns)
        port_ret_net == NetReturns(port_ret, trade_costs)
    IN  [outcome |-> "return",
         composite |-> composite,
         positions |-> positions,
         positions_prev |-> positions_prev,
         asset_returns |-> asset_returns,
         trade_costs |-> trade_costs,
         port_ret |-> port_ret,
         port_ret_net |-> port_ret_net,
         sharpe |-> SharpeOf(port_ret_net)]

----------------------------------------------------------------------------
(* State.                                                                   *)

VARIABLES
    close,          \* the panel's close column, a series
    volume,         \* the panel's volume column, a series
    factor_scores,  \* compute_factor_matrix(df): column name -> series
    candidates,     \* calibrate_phase1's candidate_weights, a sequence
    callerCfg,      \* the caller's BacktestConfig object, None if not passed
    localCfg,       \* the BacktestConfig line 167 creates, None if not created
    pc,             \* where calibrate_phase1 is
    call,           \* the number of the current call on the same inputs
    idx,            \* the loop's position in candidates
    best_sharpe,
    best_weights,
    bt,             \* what the latest backtest_weights call computed
    results,        \* what the calls so far returned, in order
    fn,             \* the function the caller calls
    arg,            \* its arguments, as they were when the caller passed them
    out             \* what a stand-alone call gave, None before it ends

vars == <<close, volume, factor_scores, candidates, callerCfg, localCfg, pc,
          call, idx, best_sharpe, best_weights, bt, results, fn, arg, out>>

inputs == <<close, volume, factor_scores, candidates>>

calibVars == <<callerCfg, localCfg, pc, call, idx, best_sharpe, best_weights,
               bt, results>>

aloneVars == <<fn, arg, out>>

----------------------------------------------------------------------------
(* Inputs.                                                                  *)

\* The longest panel, in dates.
MaxDates == 3

\* The longest candidate sequence.
MaxCands == 2

\* One date's cross-section of a rank-normalised score column over two
\* tickers (rank_normalize maps ranks 1, 2 to -1, 1 and a tie to 0, 0).
Up == [A |-> I(1), B |-> I(-1)]

Down == [A |-> I(-1), B |-> I(1)]

Tie == [A |-> Zero, B |-> Zero]

SeriesOfRows(rows) ==
    Tab([key \in (1..Len(rows)) \X {"A", "B"} |-> rows[key[1]][key[2]]])

ConstSeries(D, v) == Tab([key \in (1..D) \X {"A", "B"} |-> v])

\* Non-empty sequences of distinct elements of S, of length at most n.
SeqsUpTo(S, n) ==
    {q \in UNION {[1..m -> S] : m \in 1..n} :
        \A i, j \in DOMAIN q : q[i] = q[j] => i = j}

\* A TCCMConfig a caller may pass.
CallerTCCMConfig ==
    [commission_per_share |-> One,
     calibration_constant |-> One,
     impact_alpha |-> 1,
     adv_window |-> 1]

\* Weight vectors: a dict from column names to weights.
CandidateVectors ==
    {[RS_score |-> One],
     [RS_score |-> I(2)],
     [Momentum_score |-> One],
     << >>}

\* Panels of the calibration runs: ticker A's close alternates 1, 2, ticker
\* B's stays 1, volume is 2; the RS column is free per date, the Momentum
\* column ranks A first throughout.
CalClose(D) ==
    Tab([key \in (1..D) \X {"A", "B"} |->
        IF key[2] = "A" /\ key[1] % 2 = 0 THEN I(2) ELSE I(1)])

Init ==
    /\ \E D \in 1..MaxDates :
         /\ close = CalClose(D)
         /\ volume = ConstSeries(D, I(2))
         /\ \E rs \in [1..D -> {Up, Down}] :
              factor_scores = [RS_score |-> SeriesOfRows(rs),
                               Momentum_score |-> SeriesOfRows([t \in 1..D |-> Up])]
    /\ candidates \in SeqsUpTo(CandidateVectors, MaxCands)
    /\ callerCfg \in {None, [tc_config |-> None], [tc_config |-> CallerTCCMConfig]}
    /\ fn = "calibrate_phase1"
    /\ arg = [df |-> [close |-> close, volume |-> volume],
              candidate_weights |-> candidates,
              bt_config |-> callerCfg]
    /\ out = None
    /\ localCfg = None
    /\ pc = "start"
    /\ call = 1
    /\ idx = 0
    /\ best_sharpe = NaN
    /\ best_weights = << >>
    /\ bt = None
    /\ results = << >>

----------------------------------------------------------------------------
(* calibrate_phase1, called twice on the same arguments.                    *)

\* The BacktestConfig object the name bt_config refers to inside the call.
BtConfig == IF callerCfg = None THEN localCfg ELSE callerCfg

\* Enter with a best_sharpe that outlives the call.
EnterKeepingBest ==
    /\ pc = "start"
    /\ localCfg' = IF callerCfg = None THEN [tc_config |-> None] ELSE localCfg
    /\ best_sharpe' = IF IsNaN(best_sharpe) THEN NegInf ELSE best_sharpe
    /\ best_weights' = << >>
    /\ idx' = 1
    /\ pc' = "loop"
    /\ UNCHANGED <<inputs, callerCfg, call, bt, results, aloneVars>>

\* Lines 166-170.
Enter ==
    /\ pc = "start"
    /\ localCfg' = IF callerCfg = None THEN [tc_config |-> None] ELSE localCfg
    /\ best_sharpe' = NegInf
    /\ best_weights' = << >>
    /\ idx' = 1
    /\ pc' = "loop"
    /\ UNCHANGED <<inputs, callerCfg, call, bt, results, aloneVars>>

\* A comparison that lets every later candidate win.
LastWins(sharpe, best) == ~IsNaN(sharpe)

\* if sharpe > best_sharpe
Better(sharpe, best) == Gt(sharpe, best)

\* One iteration of the loop, lines 172-176, with the backtest_weights call
\* it makes; the call writes bt_config.tc_config before it can raise.
Evaluate(w) ==
    LET cfg == LazyTCCMConfig(BtConfig)
        r == backtest_weights(close, volume, factor_scores, w, cfg.tc_config)
    IN  /\ IF callerCfg = None
           THEN localCfg' = cfg /\ UNCHANGED callerCfg
           ELSE callerCfg' = cfg /\ UNCHANGED localCfg
        /\ bt' = r
        /\ IF r.outcome = "raise"
           THEN /\ pc' = "raised"
                /\ UNCHANGED <<idx, best_sharpe, best_weights>>
           ELSE /\ pc' = "loop"
                /\ idx' = idx + 1
                /\ IF Better(r.sharpe, best_sharpe)
                   THEN best_sharpe' = r.sharpe /\ best_weights' = w
                   ELSE UNCHANGED <<best_sharpe, best_weights>>
        /\ UNCHANGED <<inputs, call, results, aloneVars>>

Iterate ==
    /\ pc = "loop"
    /\ idx <= Len(candidates)
    /\ Evaluate(candidates[idx])

\* Line 178.
Return ==
    /\ pc = "loop"
    /\ idx > Len(candidates)
    /\ results' = Append(results, [weights |-> best_weights, sharpe |-> best_sharpe])
    /\ pc' = "returned"
    /\ UNCHANGED <<inputs, callerCfg, localCfg, call, idx, best_sharpe,
                   best_weights, bt, aloneVars>>

\* The caller calls again with the same arguments.
CallAgain ==
    /\ pc = "returned"
    /\ call = 1
    /\ call' = call + 1
    /\ pc' = "start"
    /\ localCfg' = None
    /\ UNCHANGED <<inputs, callerCfg, idx, best_sharpe, best_weights, bt,
                   results, aloneVars>>

Next == Enter \/ Iterate \/ Return \/ CallAgain

Spec == Init /\ [][Next]_vars

----------------------------------------------------------------------------
(* calibrate_phase1 called on a sequence of candidates and then on a         *)
(* permutation of it.                                                       *)

Orders(n) == {p \in [1..n -> 1..n] : \A i, j \in 1..n : p[i] = p[j] => i = j}

InitPerm ==
    /\ Init
    /\ callerCfg = None

\* The caller calls again with the candidates in another order; arg keeps
\* the first call's arguments.
CallPermuted ==
    /\ pc = "returned"
    /\ call = 1
    /\ \E p \in Orders(Len(candidates)) :
         candidates' = [i \in 1..Len(candidates) |-> candidates[p[i]]]
    /\ call' = call + 1
    /\ pc' = "start"
    /\ localCfg' = None
    /\ UNCHANGED <<close, volume, factor_scores, callerCfg, idx, best_sharpe,
                   best_weights, bt, results, aloneVars>>

NextPerm == Enter \/ Iterate \/ Return \/ CallPermuted

SpecPerm == InitPerm /\ [][NextPerm]_vars

----------------------------------------------------------------------------
(* backtest_weights called on its own, over a wider range of panels.        *)

CalibIdle ==
    /\ candidates = << >>
    /\ localCfg = None
    /\ pc = "idle"
    /\ call = 0
    /\ idx = 0
    /\ best_sharpe = NaN
    /\ best_weights = << >>
    /\ bt = None
    /\ results = << >>

\* One date of a backtest panel: the closes of A and B and the date's
\* cross-section of the RS column.  The kinds cover a flat and a moving
\* price, both rankings, a tie (an all-zero cross-section), a zero price and
\* an undefined score.
DayKinds ==
    {[close |-> [A |-> I(1), B |-> I(1)], rs |-> Up],
     [close |-> [A |-> I(2), B |-> I(1)], rs |-> Up],
     [close |-> [A |-> I(2), B |-> I(1)], rs |-> Down],
     [close |-> [A |-> I(1), B |-> I(1)], rs |-> Tie],
     [close |-> [A |-> Zero, B |-> I(1)], rs |-> Up],
     [close |-> [A |-> I(1), B |-> I(1)], rs |-> [A |-> NaN, B |-> I(-1)]]}

BacktestVectors ==
    {[RS_score |-> One],
     [RS_score |-> One, Momentum_score |-> One, Unknown_score |-> One],
     [Unknown_score |-> One],
     << >>}

InitBT ==
    /\ \E D \in 1..MaxDates :
         \E days \in [1..D -> DayKinds] :
           /\ close = SeriesOfRows([t \in 1..D |-> days[t].close])
           /\ volume = ConstSeries(D, I(2))
           /\ factor_scores =
                [RS_score |-> SeriesOfRows([t \in 1..D |-> days[t].rs]),
                 Momentum_score |-> SeriesOfRows([t \in 1..D |-> Up])]
    /\ fn = "backtest_weights"
    /\ callerCfg \in {[tc_config |-> None], [tc_config |-> CallerTCCMConfig]}
    /\ \E w \in BacktestVectors :
         arg = [df |-> [close |-> close, volume |-> volume],
                weights |-> w,
                bt_config |-> callerCfg]
    /\ out = None
    /\ CalibIdle

\* The whole of backtest_weights: lines 88-89 write the caller's object,
\* then the computation returns or raises.
CallBacktest ==
    /\ fn = "backtest_weights"
    /\ out = None
    /\ LET cfg == LazyTCCMConfig(callerCfg)
       IN  /\ callerCfg' = cfg
           /\ out' = backtest_weights(close, volume, factor_scores, arg.weights,
                                      cfg.tc_config)
    /\ UNCHANGED <<inputs, localCfg, pc, call, idx, best_sharpe, best_weights,
                   bt, results, fn, arg>>

NextBT == CallBacktest

SpecBT == InitBT /\ [][NextBT]_vars

----------------------------------------------------------------------------
(* estimate_trade_costs called on its own.                                  *)

\* One date of ticker A: the positions before and after the date's trade and
\* the date's volume.
TradeKinds ==
    {[prev |-> p[1], next |-> p[2], volume |-> v] :
        p \in {<<One, One>>, <<Zero, One>>, <<One, Zero>>}, v \in {Zero, I(2)}}

\* The configurations of the stand-alone calls: the default one (None) and
\* those with a unit commission and calibration constant.
TradeConfigs ==
    {None} \cup
    {[commission_per_share |-> One, calibration_constant |-> One,
      impact_alpha |-> a, adv_window |-> w] : a \in {0, 1, 2}, w \in {1, 2}}

\* Ticker A trades on dates 1..D as days says; ticker B is listed from date
\* 2 and buys a share on each of its dates at volume 2.  The volatility is
\* undefined before the date volFrom and 1 from it on.
TradeSeries(days, a, b) ==
    Tab([key \in ((1..Len(days)) \X {"A"}) \cup ((2..Len(days)) \X {"B"}) |->
        IF key[2] = "A" THEN a[key[1]] ELSE b])

InitTC ==
    /\ \E D \in 1..MaxDates :
       \E days \in [1..D -> TradeKinds] :
       \E volFrom \in {1, 2, D + 1} :
       \E config \in TradeConfigs :
         /\ close = TradeSeries(days, [t \in 1..D |-> I(1 + (t % 2))], One)
         /\ volume = TradeSeries(days, [t \in 1..D |-> days[t].volume], I(2))
         /\ arg = [positions_prev |->
                       TradeSeries(days, [t \in 1..D |-> days[t].prev], Zero),
                   positions_next |->
                       TradeSeries(days, [t \in 1..D |-> days[t].next], One),
                   volatility |->
                       TradeSeries(days, [t \in 1..D |->
                                             IF t < volFrom THEN NaN ELSE One], One),
                   config |-> config]
    /\ factor_scores = << >>
    /\ callerCfg = None
    /\ fn = "estimate_trade_costs"
    /\ out = None
    /\ CalibIdle

CallEstimateTradeCosts ==
    /\ fn = "estimate_trade_costs"
    /\ out = None
    /\ out' = [outcome |-> "return",
               cost |-> estimate_trade_costs(arg.positions_prev, arg.positions_next,
                                             close, volume, arg.volatility,
                                             arg.config)]
    /\ UNCHANGED <<inputs, calibVars, fn, arg>>

NextTC == CallEstimateTradeCosts

SpecTC == InitTC /\ [][NextTC]_vars

----------------------------------------------------------------------------
(* The technical primitives, each called on two panels that agree on the    *)
(* rows of ticker A.                                                        *)

\* One row of a panel.
BarX == [high |-> I(2), low |-> I(1), close |-> I(2), volume |-> I(2)]

BarY == [high |-> I(4), low |-> I(3), close |-> I(3), volume |-> Zero]

BarNaN == [high |-> NaN, low |-> NaN, close |-> NaN, volume |-> NaN]

Absent == [absent |-> TRUE]

\* The panel with ticker A's rows a[1..D] and ticker B's rows b[t], where
\* b[t] is not Absent.
Panel(a, b) ==
    LET keys == ((DOMAIN a) \X {"A"}) \cup ({t \in DOMAIN b : b[t] # Absent} \X {"B"})
        row(key) == IF key[2] = "A" THEN a[key[1]] ELSE b[key[1]]
    IN  [high |-> Tab([key \in keys |-> row(key).high]),
         low |-> Tab([key \in keys |-> row(key).low]),
         close |-> Tab([key \in keys |-> row(key).close]),
         volume |-> Tab([key \in keys |-> row(key).volume])]

\* The calls: the primitive, the column it is given (atr takes the frame)
\* and, for rolling_apply_grouped, the callable.
Primitives ==
    {[fn |-> "simple_moving_average", column |-> "close", func |-> ""],
     [fn |-> "rate_of_change", column |-> "close", func |-> ""],
     [fn |-> "rate_of_change", column |-> "volume", func |-> ""],
     [fn |-> "atr", column |-> "", func |-> ""],
     [fn |-> "rolling_apply_grouped", column |-> "close", func |-> "max"],
     [fn |-> "rolling_apply_grouped", column |-> "close", func |-> "min"],
     [fn |-> "compute_adv", column |-> "volume", func |-> ""]}

InitPrim ==
    /\ \E D \in 1..MaxDates :
       \E a \in [1..D -> {BarX, BarY}] :
       \E b \in [1..D -> {Absent, BarY, BarNaN}] :
       \E p \in Primitives :
       \E window \in {1, 2} :
         /\ fn = p.fn
         /\ arg = [df |-> Panel(a, [t \in 1..D |-> BarX]),
                   other |-> Panel(a, b),
                   window |-> window,
                   column |-> p.column,
                   func |-> p.func]
    /\ close = EmptySeries
    /\ volume = EmptySeries
    /\ factor_scores = << >>
    /\ callerCfg = None
    /\ out = None
    /\ CalibIdle

\* The primitive has run on both panels.
Ran(first, second) ==
    /\ out = None
    /\ out' = [outcome |-> "return", first |-> first, second |-> second]
    /\ UNCHANGED <<inputs, calibVars, fn, arg>>

CallSimpleMovingAverage ==
    /\ fn = "simple_moving_average"
    /\ Ran(simple_moving_average(arg.df.close, arg.window),
           simple_moving_average(arg.other.close, arg.window))

CallRateOfChange ==
    /\ fn = "rate_of_change"
    /\ Ran(rate_of_change(arg.df[arg.column], arg.window),
           rate_of_change(arg.other[arg.column], arg.window))

CallAtr ==
    /\ fn = "atr"
    /\ Ran(atr(arg.df, arg.window), atr(arg.other, arg.window))

CallRollingApplyGrouped ==
    /\ fn = "rolling_apply_grouped"
    /\ Ran(rolling_apply_grouped(arg.df.close, arg.window, arg.func),
           rolling_apply_grouped(arg.other.close, arg.window, arg.func))

CallComputeAdv ==
    /\ fn = "compute_adv"
    /\ Ran(compute_adv(arg.df.volume, arg.window),
           compute_adv(arg.other.volume, arg.window))

NextPrim ==
    \/ CallSimpleMovingAverage
    \/ CallRateOfChange
    \/ CallAtr
    \/ CallRollingApplyGrouped
    \/ CallComputeAdv

SpecPrim == InitPrim /\ [][NextPrim]_vars

----------------------------------------------------------------------------
(* _positions_from_scores, called alone.                                    *)

\* One date's cross-section: each ticker's composite score and price; the
\* ticker is absent from a series where it has no such field.
CrossSections ==
    {[A |-> [score |-> One, price |-> One], B |-> [score |-> I(-1), price |-> I(2)]],
     [A |-> [score |-> Zero, price |-> One], B |-> [score |-> Zero, price |-> One]],
     [A |-> [score |-> I(2), price |-> I(2)], B |-> [unlisted |-> TRUE]],
     [A |-> [score |-> One, price |-> Zero], B |-> [score |-> One, price |-> One]],
     [A |-> [score |-> One, price |-> NaN], B |-> [score |-> I(-2), price |-> One]],
     [A |-> [score |-> NaN, price |-> One], B |-> [score |-> One, price |-> I(2)]],
     [A |-> [score |-> Zero, price |-> Zero], B |-> [score |-> I(3), price |-> One]],
     [A |-> [score |-> One, price |-> I(2)], B |-> [score |-> One]]}

\* The series of one field over the dates' cross-sections.
FieldSeries(days, field) ==
    Tab([key \in {x \in (1..Len(days)) \X {"A", "B"} :
                      field \in DOMAIN days[x[1]][x[2]]}
         |-> days[key[1]][key[2]][field]])

InitPos ==
    /\ \E D \in 1..MaxDates :
       \E days \in [1..D -> CrossSections] :
         arg = [scores |-> FieldSeries(days, "score"),
                volatility_target |-> Q(1, 10),
                prices |-> FieldSeries(days, "price")]
    /\ close = EmptySeries
    /\ volume = EmptySeries
    /\ factor_scores = << >>
    /\ callerCfg = None
    /\ fn = "_positions_from_scores"
    /\ out = None
    /\ CalibIdle

CallPositionsFromScores ==
    /\ fn = "_positions_from_scores"
    /\ out = None
    /\ out' = [outcome |-> "return",
               position |-> positions_from_scores(arg.scores, arg.prices)]
    /\ UNCHANGED <<inputs, calibVars, fn, arg>>

NextPos == CallPositionsFromScores

SpecPos == InitPos /\ [][NextPos]_vars

----------------------------------------------------------------------------
(* backtest_weights called on an OHLCV panel, the factor matrix computed    *)
(* from the panel at line 91.                                               *)

\* The rows of ticker B beside ticker A's: never listed (a single-ticker
\* panel), listed throughout, listed from date 2, delisted after date D - 1.
Listings(D) ==
    {[t \in 1..D |-> Absent],
     [t \in 1..D |-> BarX],
     [t \in 1..D |-> IF t >= 2 THEN BarY ELSE Absent],
     [t \in 1..D |-> IF t < D THEN BarX ELSE Absent]}

PanelVectors ==
    {[RS_score |-> One],
     [RS_score |-> Zero, Momentum_score |-> One],
     [Momentum_score |-> One],
     [RS_score |-> Q(1, 5), Trend_score |-> Q(1, 5), Squeeze_score |-> Q(1, 5),
      Momentum_score |-> Q(1, 5), Volume_score |-> Q(1, 5)],
     [Unknown_score |-> One]}

\* Panels long enough for a ticker to have more observations than the RS
\* module's longest horizon.
InitPanel ==
    /\ callerCfg \in {[tc_config |-> None],
                      [tc_config |-> CallerTCCMConfig],
                      [tc_config |-> [CallerTCCMConfig EXCEPT !.impact_alpha = 0]]}
    /\ \E D \in 1..(DefaultRSConfig.very_long_window + 1) :
       \E a \in [1..D -> {BarX, BarY}] :
       \E b \in Listings(D) :
       \E w \in PanelVectors :
         /\ close = Panel(a, b).close
         /\ volume = Panel(a, b).volume
         /\ arg = [df |-> Panel(a, b), weights |-> w, bt_config |-> callerCfg]
    /\ factor_scores = << >>
    /\ fn = "backtest_weights(df)"
    /\ out = None
    /\ CalibIdle

\* The whole of backtest_weights, compute_factor_matrix(df) included.
CallBacktestOnPanel ==
    /\ fn = "backtest_weights(df)"
    /\ out = None
    /\ callerCfg' = LazyTCCMConfig(callerCfg)
    /\ factor_scores' = compute_factor_matrix(arg.df, DefaultFactorEngineConfig).scores
    /\ out' = backtest_weights(close, volume, factor_scores', arg.weights,
                               callerCfg'.tc_config)
    /\ UNCHANGED <<close, volume, candidates, localCfg, pc, call, idx, best_sharpe,
                   best_weights, bt, results, fn, arg>>

NextPanel == CallBacktestOnPanel

SpecPanel == InitPanel /\ [][NextPanel]_vars

----------------------------------------------------------------------------
(* rank_normalize and compute_factor_matrix, called alone.                  *)

\* The raw series with ticker A's values a[1..D] and ticker B's values b[t],
\* where b[t] is not Absent.
RawSeries(a, b) ==
    LET keys == ((DOMAIN a) \X {"A"}) \cup ({t \in DOMAIN b : b[t] # Absent} \X {"B"})
    IN  Tab([key \in keys |-> IF key[2] = "A" THEN a[key[1]] ELSE b[key[1]]])

\* The (lower, upper) pairs given to rank_normalize; the first is the default.
RankBounds == {<<I(-1), One>>, <<Zero, One>>, <<Zero, I(2)>>}

\* The configurations given to compute_factor_matrix: all factors, none, and
\* each factor alone.
EngineConfigs ==
    {DefaultFactorEngineConfig,
     [use_rs |-> FALSE, use_trend |-> FALSE, use_squeeze |-> FALSE,
      use_momentum |-> FALSE, use_volume |-> FALSE],
     [use_rs |-> TRUE, use_trend |-> FALSE, use_squeeze |-> FALSE,
      use_momentum |-> FALSE, use_volume |-> FALSE],
     [use_rs |-> FALSE, use_trend |-> TRUE, use_squeeze |-> FALSE,
      use_momentum |-> FALSE, use_volume |-> FALSE],
     [use_rs |-> FALSE, use_trend |-> FALSE, use_squeeze |-> TRUE,
      use_momentum |-> FALSE, use_volume |-> FALSE],
     [use_rs |-> FALSE, use_trend |-> FALSE, use_squeeze |-> FALSE,
      use_momentum |-> TRUE, use_volume |-> FALSE],
     [use_rs |-> FALSE, use_trend |-> FALSE, use_squeeze |-> FALSE,
      use_momentum |-> FALSE, use_volume |-> TRUE]}

InitFM ==
    /\ \/ \E D \in 1..MaxDates :
          \E a \in [1..D -> {One, I(2), NaN}] :
          \E b \in [1..D -> {Absent, One, I(3), PosInf}] :
          \E bounds \in RankBounds :
            /\ fn = "rank_normalize"
            /\ arg = [series |-> RawSeries(a, b),
                      lower |-> bounds[1], upper |-> bounds[2]]
       \/ \E D \in 1..MaxDates :
          \E a \in [1..D -> {BarX, BarY}] :
          \E b \in [1..D -> {Absent, BarX, BarY, BarNaN}] :
          \E config \in EngineConfigs :
            /\ fn = "compute_factor_matrix"
            /\ arg = [df |-> Panel(a, b), config |-> config]
    /\ close = EmptySeries
    /\ volume = EmptySeries
    /\ factor_scores = << >>
    /\ callerCfg = None
    /\ out = None
    /\ CalibIdle

CallRankNormalize ==
    /\ fn = "rank_normalize"
    /\ out = None
    /\ out' = [outcome |-> "return",
               scores |-> rank_normalize(arg.series, arg.lower, arg.upper)]
    /\ UNCHANGED <<inputs, calibVars, fn, arg>>

CallComputeFactorMatrix ==
    /\ fn = "compute_factor_matrix"
    /\ out = None
    /\ out' = compute_factor_matrix(arg.df, arg.config)
    /\ UNCHANGED <<inputs, calibVars, fn, arg>>

NextFM ==
    \/ CallRankNormalize
    \/ CallComputeFactorMatrix

SpecFM == InitFM /\ [][NextFM]_vars

----------------------------------------------------------------------------
(* The five factor modules, each called alone with its default             *)
(* configuration (and no benchmark).                                        *)

FactorModules ==
    {"compute_rs_score", "compute_trend_score", "compute_squeeze_score",
     "compute_momentum_score", "compute_volume_score"}

InitRaw ==
    /\ \E D \in 1..MaxDates :
       \E a \in [1..D -> {BarX, BarY}] :
       \E b \in [1..D -> {Absent, BarX, BarY, BarNaN}] :
         arg = [df |-> Panel(a, b), config |-> None]
    /\ fn \in FactorModules
    /\ close = EmptySeries
    /\ volume = EmptySeries
    /\ factor_scores = << >>
    /\ callerCfg = None
    /\ out = None
    /\ CalibIdle

\* The module has returned its raw factor.
ReturnRaw(raw) ==
    /\ out = None
    /\ out' = [outcome |-> "return", raw |-> raw]
    /\ UNCHANGED <<inputs, calibVars, fn, arg>>

CallComputeRsScore ==
    /\ fn = "compute_rs_score"
    /\ ReturnRaw(compute_rs_score(arg.df, DefaultRSConfig))

CallComputeTrendScore ==
    /\ fn = "compute_trend_score"
    /\ ReturnRaw(compute_trend_score(arg.df, DefaultTrendConfig))

CallComputeSqueezeScore ==
    /\ fn = "compute_squeeze_score"
    /\ ReturnRaw(compute_squeeze_score(arg.df, DefaultSqueezeConfig))

CallComputeMomentumScore ==
    /\ fn = "compute_momentum_score"
    /\ ReturnRaw(compute_momentum_score(arg.df, DefaultMomentumConfig))

CallComputeVolumeScore ==
    /\ fn = "compute_volume_score"
    /\ ReturnRaw(compute_volume_score(arg.df, DefaultVolumeConfig))

NextRaw ==
    \/ CallComputeRsScore
    \/ CallComputeTrendScore
    \/ CallComputeSqueezeScore
    \/ CallComputeMomentumScore
    \/ CallComputeVolumeScore

SpecRaw == InitRaw /\ [][NextRaw]_vars

----------------------------------------------------------------------------
(* compute_capacity_usage, called alone.                                    *)

\* Ticker A holds the same position at the same price on every date, at the
\* volumes drawn; ticker B, if listed, is listed from date 2 with one share
\* at price 1 and volume 3.
InitCap ==
    /\ \E D \in 1..MaxDates :
       \E vol \in [1..D -> {Zero, One, I(2), I(4)}] :
       \E listed \in BOOLEAN :
       \E position \in {I(-2), One, I(3)} :
       \E price \in {One, I(2)} :
       \E config \in {None, [DefaultTCCMConfig EXCEPT !.adv_window = 1]} :
         LET b == [t \in 1..D |-> IF listed /\ t >= 2 THEN One ELSE Absent]
         IN  /\ close = RawSeries([t \in 1..D |-> price], b)
             /\ volume = RawSeries(vol, [t \in 1..D |->
                                            IF b[t] = Absent THEN Absent ELSE I(3)])
             /\ arg = [positions |-> RawSeries([t \in 1..D |-> position], b),
                       config |-> config]
    /\ factor_scores = << >>
    /\ callerCfg = None
    /\ fn = "compute_capacity_usage"
    /\ out = None
    /\ CalibIdle

CallComputeCapacityUsage ==
    /\ fn = "compute_capacity_usage"
    /\ out = None
    /\ out' = [outcome |-> "return",
               capacity_usage |-> compute_capacity_usage(arg.positions, close,
                                                         volume, arg.config)]
    /\ UNCHANGED <<inputs, calibVars, fn, arg>>

NextCap == CallComputeCapacityUsage

SpecCap == InitCap /\ [][NextCap]_vars

----------------------------------------------------------------------------
(* ensure_multiindex, called on a table and again on its result.            *)

MaxRows == 3

\* The observations a table's rows hold.
Observations ==
    [date : {1, 2}, ticker : {"A", "B"}, close : {One, I(2)}]

\* The forms a table comes in: date and ticker as columns of a flat index,
\* as a (date, ticker) key, as a (ticker, date) key, as columns beside a key
\* without a date, and the two forms that are not accepted.
TableForms ==
    {"columns", "date_ticker", "ticker_date", "columns_keyed", "three_levels",
     "no_date"}

TableOf(form, obs) ==
    IF form = "columns"
    THEN [names |-> <<"">>, columns |-> {"date", "ticker", "close"},
          rows |-> [i \in DOMAIN obs |->
                      [key |-> <<i>>,
                       cols |-> [c \in {"date", "ticker", "close"} |-> obs[i][c]]]]]
    ELSE IF form = "date_ticker"
    THEN [names |-> <<"date", "ticker">>, columns |-> {"close"},
          rows |-> [i \in DOMAIN obs |->
                      [key |-> <<obs[i].date, obs[i].ticker>>,
                       cols |-> [c \in {"close"} |-> obs[i][c]]]]]
    ELSE IF form = "ticker_date"
    THEN [names |-> <<"ticker", "date">>, columns |-> {"close"},
          rows |-> [i \in DOMAIN obs |->
                      [key |-> <<obs[i].ticker, obs[i].date>>,
                       cols |-> [c \in {"close"} |-> obs[i][c]]]]]
    ELSE IF form = "columns_keyed"
    THEN [names |-> <<"sector", "ticker">>,
          columns |-> {"date", "ticker", "close"},
          rows |-> [i \in DOMAIN obs |->
                      [key |-> <<"S", obs[i].ticker>>,
                       cols |-> [c \in {"date", "ticker", "close"} |-> obs[i][c]]]]]
    ELSE IF form = "three_levels"
    THEN [names |-> <<"date", "ticker", "venue">>, columns |-> {"close"},
          rows |-> [i \in DOMAIN obs |->
                      [key |-> <<obs[i].date, obs[i].ticker, "V">>,
                       cols |-> [c \in {"close"} |-> obs[i][c]]]]]
    ELSE [names |-> <<"">>, columns |-> {"ticker", "close"},
          rows |-> [i \in DOMAIN obs |->
                      [key |-> <<i>>,
                       cols |-> [c \in {"ticker", "close"} |-> obs[i][c]]]]]

InitEM ==
    /\ \E n \in 0..MaxRows :
       \E obs \in [1..n -> Observations] :
       \E form \in TableForms :
         arg = [df |-> TableOf(form, obs)]
    /\ close = EmptySeries
    /\ volume = EmptySeries
    /\ factor_scores = << >>
    /\ callerCfg = None
    /\ fn = "ensure_multiindex"
    /\ out = None
    /\ CalibIdle

\* ensure_multiindex(t)
CallEnsureMultiindex ==
    /\ fn = "ensure_multiindex"
    /\ out = None
    /\ out' = [first |-> ensure_multiindex(arg.df), second |-> None]
    /\ UNCHANGED <<inputs, calibVars, fn, arg>>

\* ensure_multiindex(ensure_multiindex(t))
CallEnsureMultiindexAgain ==
    /\ fn = "ensure_multiindex"
    /\ out # None
    /\ out.first.outcome = "return"
    /\ out.second = None
    /\ out' = [out EXCEPT !.second = ensure_multiindex(out.first.df)]
    /\ UNCHANGED <<inputs, calibVars, fn, arg>>

NextEM ==
    \/ CallEnsureMultiindex
    \/ CallEnsureMultiindexAgain

SpecEM == InitEM /\ [][NextEM]_vars

----------------------------------------------------------------------------
(* validate_schema, called alone.                                           *)

Dtypes == {"float64", "int64"}

\* The tables: each of three column names absent or present with a dtype.
SchemaTables ==
    UNION {[cols -> Dtypes] : cols \in SUBSET {"close", "volume", "VLM"}}

\* The schemas: the (column, dtype) items of up to two declared columns, in
\* either order.
Schemas ==
    {<< >>}
    \cup {<<<<c, d>>>> : c \in {"close", "volume"}, d \in Dtypes}
    \cup {<<<<"close", d>>, <<"volume", e>>>> : d \in Dtypes, e \in Dtypes}
    \cup {<<<<"volume", d>>, <<"close", e>>>> : d \in Dtypes, e \in Dtypes}

InitVS ==
    /\ \E df \in SchemaTables :
       \E schema \in Schemas :
         arg = [df |-> df, schema |-> schema]
    /\ close = EmptySeries
    /\ volume = EmptySeries
    /\ factor_scores = << >>
    /\ callerCfg = None
    /\ fn = "validate_schema"
    /\ out = None
    /\ CalibIdle

CallValidateSchema ==
    /\ fn = "validate_schema"
    /\ out = None
    /\ out' = validate_schema(arg.df, arg.schema)
    /\ UNCHANGED <<inputs, calibVars, fn, arg>>

NextVS == CallValidateSchema

SpecVS == InitVS /\ [][NextVS]_vars

----------------------------------------------------------------------------
(* should_activate_kill_switch, called alone.                               *)

\* The drops lie below, at and above the thresholds; the first
\* configuration is the default one.
InitKS ==
    /\ \E drop \in {NaN, Zero, Q(-1, 100), Q(1, 100), Q(2, 100), Q(225, 10000),
                    Q(5, 100)} :
       \E atr_value \in {NaN, Zero, Q(1, 100), Q(2, 100)} :
       \E std \in {NaN, Zero, Q(1, 100), Q(15, 1000)} :
       \E config \in {None,
                      [atr_multiplier |-> One, hist_vol_multiplier |-> One],
                      [atr_multiplier |-> Zero, hist_vol_multiplier |-> I(3)]} :
         arg = [sector_drop_1w |-> drop, atr |-> atr_value,
                hist_vol_std |-> std, config |-> config]
    /\ close = EmptySeries
    /\ volume = EmptySeries
    /\ factor_scores = << >>
    /\ callerCfg = None
    /\ fn = "should_activate_kill_switch"
    /\ out = None
    /\ CalibIdle

CallShouldActivateKillSwitch ==
    /\ fn = "should_activate_kill_switch"
    /\ out = None
    /\ out' = [outcome |-> "return",
               active |-> should_activate_kill_switch(arg.sector_drop_1w, arg.atr,
                                                      arg.hist_vol_std, arg.config)]
    /\ UNCHANGED <<inputs, calibVars, fn, arg>>

NextKS == CallShouldActivateKillSwitch

SpecKS == InitKS /\ [][NextKS]_vars

----------------------------------------------------------------------------
(* Properties of calibrate_phase1 (Spec).                                   *)

\* The Sharpe value backtest_weights yields for the i-th candidate under the
\* configuration the call works with.
CandidateSharpe(i) ==
    backtest_weights(close, volume, factor_scores, candidates[i],
                     BtConfig.tc_config).sharpe

\* (weights, sharpe) is the first candidate of the highest Sharpe, with its
\* Sharpe.
FirstBest(weights, sharpe) ==
    \E i \in 1..Len(candidates) :
        /\ candidates[i] = weights
        /\ sharpe = CandidateSharpe(i)
        /\ \A j \in 1..Len(candidates) : Le(CandidateSharpe(j), sharpe)
        /\ \A j \in 1..(i - 1) : Lt(CandidateSharpe(j), sharpe)

\* A call that returns returns the first candidate of the highest Sharpe.
ReturnedIsFirstBest ==
    pc = "returned" =>
        FirstBest(results[Len(results)].weights, results[Len(results)].sharpe)

\* A call returned a later candidate's equal: two candidates tie for the best.
TieReturned ==
    /\ pc = "returned"
    /\ Len(candidates) = 2
    /\ CandidateSharpe(1) = CandidateSharpe(2)
    /\ CandidateSharpe(1) # Zero

\* A call returned its second candidate, the strictly better one.
SecondReturned ==
    /\ pc = "returned"
    /\ Len(candidates) = 2
    /\ results[Len(results)].weights = candidates[2]
    /\ candidates[1] # candidates[2]

\* C1: for every non-empty sequence of candidates calibrate_phase1 returns,
\* and what it returns is the candidate of the highest backtest Sharpe, the
\* earliest of those that share it, with the Sharpe backtest_weights yields
\* for it.
C1_ReturnsFirstBest ==
    /\ pc # "raised"
    /\ ReturnedIsFirstBest

\* A call of calibrate_phase1 ended in backtest_weights' exception.
C1_Raised ==
    /\ pc = "raised"
    /\ call = 1
    /\ candidates[idx] = << >>

\* C2: two calls with the same panel, candidates and BacktestConfig object,
\* the second after the first has returned, return the same weights and the
\* same Sharpe.
C2_SameResultTwice ==
    Len(results) = 2 => results[1] = results[2]

\* Both calls have returned; they shared a BacktestConfig object that the
\* first call had changed, and chose between two candidates.
C2_ReturnedTwice ==
    /\ Len(results) = 2
    /\ arg.bt_config = [tc_config |-> None]
    /\ callerCfg # arg.bt_config
    /\ Len(candidates) = 2
    /\ results[2].sharpe # Zero

\* C3: when calibrate_phase1 has returned, the caller's panel, candidate
\* weight vectors and BacktestConfig are what the caller passed.
C3_CallerObjectsUnchanged ==
    pc = "returned" =>
        /\ close = arg.df.close
        /\ volume = arg.df.volume
        /\ candidates = arg.candidate_weights
        /\ callerCfg = arg.bt_config

\* calibrate_phase1 has returned to a caller who passed a BacktestConfig
\* without a tc_config.
C3_ReturnedWithLazyConfig ==
    /\ pc = "returned"
    /\ arg.bt_config = [tc_config |-> None]

----------------------------------------------------------------------------
(* Properties of backtest_weights (SpecBT).                                 *)

Returned == out # None /\ out.outcome = "return"

Raised == out # None /\ out.outcome = "raise"

Dates == DatesOf(close)

Tickers == TickersOf(close)

\* Ticker k's last date before t, 0 when t is its first.
PreviousDate(k, t) ==
    LET before == {u \in RowsOf(close, k) : u < t}
    IN  IF before = {} THEN 0 ELSE CHOOSE u \in before : \A v \in before : v <= u

\* The sum over the tickers of f[k], a missing contribution counting as 0.
OverTickers(f) == SumSkipNaN(DOMAIN f, f)

\* What date t earns before costs: per ticker, the position held into t
\* times the ticker's log return of t.
GrossOf(t) ==
    OverTickers([k \in Tickers |->
        Mul(At(out.positions_prev, <<t, k>>), At(out.asset_returns, <<t, k>>))])

\* The TCCM trade costs of date t over the tickers.
CostOf(t) == OverTickers([k \in Tickers |-> At(out.trade_costs, <<t, k>>)])

\* The composite with every score dated t or later replaced by v times it.
ScoresChangedFrom(t, v) ==
    [key \in DOMAIN out.composite |->
        IF key[1] >= t THEN Mul(v, out.composite[key]) ELSE out.composite[key]]

\* The gross returns the backtest derives from a composite.
GrossFor(composite) ==
    GrossReturns(RealizedPositions(positions_from_scores(composite, close)),
                 out.asset_returns)

\* C4: the position that earns a ticker's log return of date t is the target
\* position of the ticker's previous date, zero on its first date; changing
\* the composite scores dated t or later (reversed, or set to zero) leaves
\* the gross return of date t unchanged.
C4_OneDayLag ==
    Returned =>
        /\ \A key \in DOMAIN out.positions :
              out.positions_prev[key] =
                  IF PreviousDate(key[2], key[1]) = 0 THEN Zero
                  ELSE out.positions[<<PreviousDate(key[2], key[1]), key[2]>>]
        /\ \A t \in Dates : out.port_ret[t] = GrossOf(t)
        /\ \A t \in Dates : \A v \in {I(-1), Zero} :
              GrossFor(ScoresChangedFrom(t, v))[t] = out.port_ret[t]

\* A backtest in which a position taken on one date earned a return on the
\* next, while the scores of that next date ranked the other way.
C4_LaggedPositionEarned ==
    /\ Returned
    /\ \E key \in DOMAIN out.positions :
          /\ out.port_ret[key[1]] # Zero
          /\ IsFin(out.port_ret[key[1]])
          /\ out.positions_prev[key] # Zero
          /\ out.positions[key] # out.positions_prev[key]

\* The composite is the weighted sum of the columns the weight vector names
\* that the factor matrix has.
CompositeOfKnown ==
    \A key \in DOMAIN close :
        At(out.composite, key) =
            SumAll(KnownCols(arg.weights, factor_scores),
                   [col \in KnownCols(arg.weights, factor_scores) |->
                       Mul(arg.weights[col], factor_scores[col][key])])

\* A backtest that returns skipped every unknown entry.
ReturnedSkipsUnknown == Returned => CompositeOfKnown

\* A backtest returned for a weight vector with an unknown entry.
UnknownSkipped ==
    /\ Returned
    /\ "Unknown_score" \in DOMAIN arg.weights

\* C5: backtest_weights does not fail over weight entries that name absent
\* factors, whatever the weight vector (empty, or all entries absent): it
\* returns, and the composite is the weighted sum of the remaining entries.
C5_NeverFailsOnUnknown ==
    out # None => (out.outcome = "return" /\ CompositeOfKnown)

\* backtest_weights raised on a weight vector with no known entry.
C5_RaisedOnNoKnown ==
    /\ Raised
    /\ KnownCols(arg.weights, factor_scores) = {}

\* C8: on every date of a backtest the net return is the gross return (the
\* sum over tickers of prior-day position times log return) less the sum
\* over tickers of the date's trade costs, missing contributions counting
\* as 0, and it is never above the gross return.
C8_NetIsGrossLessCosts ==
    Returned =>
        \A t \in Dates :
            /\ out.port_ret_net[t] = Sub(GrossOf(t), CostOf(t))
            /\ Le(out.port_ret_net[t], GrossOf(t))

\* A backtest with a date whose costs took a part of a non-zero gross return.
C8_CostsCharged ==
    /\ Returned
    /\ \E t \in Dates :
          /\ GrossOf(t) # Zero
          /\ IsFin(GrossOf(t))
          /\ Gt(CostOf(t), Zero)
          /\ Lt(out.port_ret_net[t], GrossOf(t))

\* The Sharpe value is that of the net return series: mean * 252 over
\* population deviation * sqrt(252) where the deviation is positive, else 0
\* (in the carried form, mean * |mean| over the variance).
SharpeAsDefined ==
    /\ IsFin(out.sharpe)
    /\ LET mean == SeriesMean(out.port_ret_net)
           var == SeriesVar0(out.port_ret_net)
       IN  IF Gt(var, Zero)
           THEN Mul(out.sharpe, var) = Mul(I(Sgn(mean)), Mul(mean, mean))
           ELSE out.sharpe = Zero

\* A backtest that returns returns the Sharpe value as defined.
ReturnedSharpeAsDefined == Returned => SharpeAsDefined

\* A backtest returned a non-zero Sharpe value.
NonZeroSharpe == Returned /\ out.sharpe # Zero

\* A backtest returned the Sharpe value 0 for a series without deviation.
ZeroSharpe ==
    /\ Returned
    /\ Cardinality(Dates) > 1
    /\ ~Gt(SeriesVar0(out.port_ret_net), Zero)
    /\ \E t \in Dates : out.port_ret_net[t] # Zero

\* C9: backtest_weights always returns a defined, finite Sharpe value, the
\* annualised mean over the annualised population deviation of the net
\* daily returns where that deviation is positive, and 0 where it is 0 or
\* cannot be computed.
C9_AlwaysSharpe ==
    out # None => (out.outcome = "return" /\ SharpeAsDefined)

\* backtest_weights ended without a Sharpe value.
C9_NoSharpe == Raised /\ arg.weights = << >>

----------------------------------------------------------------------------
(* Properties of estimate_trade_costs (SpecTC).                             *)

\* The configuration the call works with.
TradeConfig == IF arg.config = None THEN DefaultTCCMConfig ELSE arg.config

ShareChange(key) == Sub(arg.positions_next[key], arg.positions_prev[key])

\* The impact term of the returned cost: the cost less the commission.
ImpactOf(key) ==
    Sub(out.cost[key], Mul(TradeConfig.commission_per_share, AbsV(ShareChange(key))))

\* The ticker's volumes of the adv_window rows up to the key's date.
AdvVolumes(key) ==
    {volume[<<u, key[2]>>] :
        u \in WindowRows(volume, key[2], key[1], TradeConfig.adv_window)}

\* The trailing ADV is unavailable (the ticker has fewer than adv_window
\* volume observations by the date) or zero.
AdvUnavailableOrZero(key) ==
    \/ Cardinality(WindowRows(volume, key[2], key[1], TradeConfig.adv_window))
           < TradeConfig.adv_window
    \/ AdvVolumes(key) = {Zero}

\* The cost of the same call with positions_prev and positions_next swapped.
SwappedCost ==
    estimate_trade_costs(arg.positions_next, arg.positions_prev, close, volume,
                         arg.volatility, arg.config)

CommissionOnly ==
    \A key \in DOMAIN out.cost :
        AdvUnavailableOrZero(key) =>
            /\ ~IsNaN(out.cost[key])
            /\ ImpactOf(key) = Zero
            /\ out.cost[key] =
                   Mul(TradeConfig.commission_per_share, AbsV(ShareChange(key)))

\* C7: at every (date, ticker) where the trailing ADV is unavailable or
\* zero, the impact term is 0 and the returned cost is defined and equals
\* commission_per_share * |share change|.
C7_CommissionOnlyWithoutAdv == Returned => CommissionOnly

\* With a positive impact_alpha the cost is the commission wherever the ADV
\* is unavailable or zero.
PositiveAlphaCommissionOnly ==
    (Returned /\ TradeConfig.impact_alpha > 0) => CommissionOnly

\* A trade on a date without ADV, under a positive impact_alpha.
TradeWithoutAdv ==
    /\ Returned
    /\ TradeConfig.impact_alpha > 0
    /\ \E key \in DOMAIN out.cost :
          /\ AdvUnavailableOrZero(key)
          /\ ShareChange(key) # Zero
          /\ arg.volatility[key] = One
          /\ out.cost[key] # Zero

\* A cost above the commission on a date without ADV.
C7_ImpactWithoutAdv ==
    /\ Returned
    /\ TradeConfig.impact_alpha = 0
    /\ \E key \in DOMAIN out.cost :
          /\ AdvUnavailableOrZero(key)
          /\ Gt(ImpactOf(key), Zero)

----------------------------------------------------------------------------
(* Properties of the technical primitives (SpecPrim).                       *)

\* C10: every technical primitive is computed per ticker: on two panels
\* that agree on the rows of ticker A and differ in the rows of another
\* ticker, the outputs agree at every (date, A), and each output carries
\* exactly the (date, ticker) keys of its input.
C10_PerTicker ==
    Returned =>
        /\ \A key \in DOMAIN arg.df.close :
              key[2] = "A" => out.first[key] = out.second[key]
        /\ DOMAIN out.first = DOMAIN arg.df.close
        /\ DOMAIN out.second = DOMAIN arg.other.close

\* A primitive has given ticker A a defined value from a window or a shift
\* that crosses a date on which the other ticker's rows differ between the
\* panels, one of them undefined.
C10_DefinedBesideOtherTicker ==
    /\ Returned
    /\ arg.window = 2
    /\ \E key \in DOMAIN out.first :
          /\ key[2] = "A"
          /\ key[1] >= 3
          /\ IsFin(out.first[key])
          /\ out.first[key] # Zero
          /\ \A u \in {key[1] - 1, key[1]} :
                /\ <<u, "B">> \in DOMAIN arg.other.close
                /\ IsNaN(arg.other.close[<<u, "B">>])

\* The number of the observation ticker k has on date t, counting its own
\* rows from 1.
ObservationNo(s, k, t) == Cardinality({u \in RowsOf(s, k) : u <= t})

\* The date of ticker k's i-th observation.
DateOfObservation(s, k, i) ==
    CHOOSE u \in RowsOf(s, k) : ObservationNo(s, k, u) = i

\* The mean of ticker k's observations number from..to.
MeanOfObservations(s, k, from, to) ==
    Div(SumAll(from..to, [i \in from..to |-> s[<<DateOfObservation(s, k, i), k>>]]),
        I(to - from + 1))

\* r is the exact-window trailing mean of s.
ExactWindowMean(s, r, window) ==
    \A key \in DOMAIN s :
        LET n == ObservationNo(s, key[2], key[1])
        IN  IF n < window THEN IsNaN(r[key])
            ELSE r[key] = MeanOfObservations(s, key[2], n - window + 1, n)

\* C11: simple_moving_average and compute_adv are undefined at a ticker's
\* k-th observation for k < window and, for k >= window, the mean of that
\* ticker's observations k-window+1 .. k; no partial-window value appears.
C11_ExactWindow ==
    /\ (Returned /\ fn = "simple_moving_average") =>
          /\ ExactWindowMean(arg.df.close, out.first, arg.window)
          /\ ExactWindowMean(arg.other.close, out.second, arg.window)
    /\ (Returned /\ fn = "compute_adv") =>
          /\ ExactWindowMean(arg.df.volume, out.first, arg.window)
          /\ ExactWindowMean(arg.other.volume, out.second, arg.window)

\* A trailing mean over a window of 2 with an undefined first observation
\* and, for the ticker that misses a date, a defined mean across the gap.
C11_WindowAcrossGap ==
    /\ Returned
    /\ fn \in {"simple_moving_average", "compute_adv"}
    /\ arg.window = 2
    /\ IsNaN(out.second[<<1, "A">>])
    /\ IsFin(At(out.second, <<2, "A">>))
    /\ <<2, "B">> \notin DOMAIN out.second
    /\ IsFin(At(out.second, <<3, "B">>))

\* The value ticker key[2] had `window` observations before key's, NaN when
\* it has no such observation.
LaggedValue(s, key, window) ==
    LET n == ObservationNo(s, key[2], key[1])
    IN  IF n <= window THEN NaN
        ELSE s[<<DateOfObservation(s, key[2], n - window), key[2]>>]

\* r is undefined wherever the lagged value of s is unavailable or zero, and
\* nowhere infinite.
UndefinedWithoutLag(s, r, window) ==
    \A key \in DOMAIN s :
        /\ (IsNaN(LaggedValue(s, key, window)) \/ LaggedValue(s, key, window) = Zero)
              => IsNaN(r[key])
        /\ ~IsInf(r[key])

\* r is the percentage change of s wherever the lagged value is a non-zero
\* number, and undefined where there is no lagged value.
RateWhereLagged(s, r, window) ==
    \A key \in DOMAIN s :
        LET lag == LaggedValue(s, key, window)
        IN  /\ IsNaN(lag) => IsNaN(r[key])
            /\ (IsFin(lag) /\ lag # Zero) =>
                  r[key] = Mul(Sub(Div(s[key], lag), One), I(100))

\* rate_of_change is the percentage change over non-zero lagged values.
RateOfChangeWhereLagged ==
    (Returned /\ fn = "rate_of_change") =>
        /\ RateWhereLagged(arg.df[arg.column], out.first, arg.window)
        /\ RateWhereLagged(arg.other[arg.column], out.second, arg.window)

\* C12: rate_of_change yields the undefined value wherever the ticker's
\* value `window` observations earlier is unavailable or zero, and never an
\* infinite value.
C12_UndefinedNotInfinite ==
    (Returned /\ fn = "rate_of_change") =>
        /\ UndefinedWithoutLag(arg.df[arg.column], out.first, arg.window)
        /\ UndefinedWithoutLag(arg.other[arg.column], out.second, arg.window)

\* rate_of_change gave an infinite value over a lagged value of zero.
C12_InfiniteRate ==
    /\ Returned
    /\ fn = "rate_of_change"
    /\ \E key \in DOMAIN out.first :
          /\ LaggedValue(arg.df[arg.column], key, arg.window) = Zero
          /\ IsInf(out.first[key])

----------------------------------------------------------------------------
(* Properties of SpecFM: rank_normalize.                                    *)

RankReturned == fn = "rank_normalize" /\ out # None

\* The keys of the date's cross-section.
CrossSection(series, date) == {key \in DOMAIN series : key[1] = date}

Within(v, lower, upper) == Le(lower, v) /\ Le(v, upper)

\* The claim's relation at one key of the ranked series.
RankAsClaimed(key) ==
    LET n == Cardinality(CrossSection(arg.series, key[1]))
    IN  /\ n >= 2 => Within(out.scores[key], arg.lower, arg.upper)
        /\ n = 1 => out.scores[key] = Zero

\* C13: for every raw series and every date, rank_normalize's values lie
\* within [lower, upper] when the date has at least 2 tickers, and the only
\* ticker of a date gets 0.
C13_WithinBounds ==
    RankReturned =>
        /\ DOMAIN out.scores = DOMAIN arg.series
        /\ \A key \in DOMAIN arg.series : RankAsClaimed(key)

\* What the code does: the relation holds at every key whose raw value is
\* defined or whose date has one row, and an undefined raw value on a date
\* of at least 2 rows stays undefined.
RankWhereDefined ==
    RankReturned =>
        /\ DOMAIN out.scores = DOMAIN arg.series
        /\ \A key \in DOMAIN arg.series :
             IF IsNaN(arg.series[key])
                /\ Cardinality(CrossSection(arg.series, key[1])) >= 2
             THEN IsNaN(out.scores[key])
             ELSE RankAsClaimed(key)

\* An undefined raw value on a date with two tickers has been ranked.
C13_UndefinedRank ==
    /\ RankReturned
    /\ \E key \in DOMAIN arg.series :
         /\ Cardinality(CrossSection(arg.series, key[1])) >= 2
         /\ IsNaN(arg.series[key])
         /\ IsNaN(out.scores[key])

\* Both ends of the range are taken on a date with two defined values.
RankEndsTaken ==
    /\ RankReturned
    /\ \E date \in DatesOf(arg.series) :
         /\ out.scores[<<date, "A">>] = arg.lower
         /\ At(out.scores, <<date, "B">>) = arg.upper
         /\ arg.lower # arg.upper

----------------------------------------------------------------------------
(* Properties of SpecFM: compute_factor_matrix.                             *)

MatrixReturned ==
    fn = "compute_factor_matrix" /\ out # None /\ out.outcome = "return"

MatrixRaised ==
    fn = "compute_factor_matrix" /\ out # None /\ out.outcome = "raise"

PanelKeys == DOMAIN arg.df.close

\* The column holds a defined value at every key of the panel.
DefinedEverywhere(column) ==
    \A key \in PanelKeys : ~IsNaN(At(column, key))

\* C14: every score column of the returned factor matrix holds a defined
\* value at every (date, ticker) of the panel, for every enabled factor and
\* every panel length, short histories included.
C14_DefinedEverywhere ==
    MatrixReturned =>
        \A c \in DOMAIN out.scores : DefinedEverywhere(out.scores[c])

\* What the code does: the columns whose blend fills its terms with 0 are
\* defined everywhere.
FilledColumnsDefined ==
    MatrixReturned =>
        \A c \in DOMAIN out.scores \ {"RS_score"} :
            DefinedEverywhere(out.scores[c])

\* The RS score is undefined at every key of a date with at least 2 rows
\* where the ticker has no more than very_long_window observations.
RSUndefinedOnShortHistory ==
    MatrixReturned /\ "RS_score" \in DOMAIN out.scores =>
        \A key \in PanelKeys :
            /\ Cardinality(CrossSection(arg.df.close, key[1])) >= 2
            /\ Cardinality({k \in PanelKeys : k[2] = key[2] /\ k[1] <= key[1]})
                   <= DefaultRSConfig.very_long_window
            => IsNaN(out.scores["RS_score"][key])

\* An RS score is undefined for a ticker with a short history on a date
\* with two tickers, in a panel whose prices are all defined.
C14_UndefinedRSScore ==
    /\ MatrixReturned
    /\ "RS_score" \in DOMAIN out.scores
    /\ \A key \in PanelKeys : IsFin(arg.df.close[key])
    /\ \E key \in PanelKeys :
         /\ Cardinality(CrossSection(arg.df.close, key[1])) >= 2
         /\ IsNaN(out.scores["RS_score"][key])

\* C15: the key set of the returned factor matrix equals the key set of the
\* input panel, whichever factors are enabled and whatever the row values.
C15_KeySetPreserved ==
    fn = "compute_factor_matrix" /\ out # None =>
        /\ out.outcome = "return"
        /\ \A c \in DOMAIN out.scores : DOMAIN out.scores[c] = PanelKeys

\* What the code does: a matrix that is returned has one column per enabled
\* factor, each over exactly the panel's keys, and the call raises only
\* when no factor is enabled.
ReturnedKeySetPreserved ==
    /\ MatrixReturned =>
         /\ DOMAIN out.scores = {ScoreColumn(col) : col \in RawColumns(arg.config)}
         /\ \A c \in DOMAIN out.scores : DOMAIN out.scores[c] = PanelKeys
    /\ MatrixRaised => RawColumns(arg.config) = {}

\* The call with no factor enabled has raised on a panel with rows.
C15_RaisedWithNoFactor ==
    /\ MatrixRaised
    /\ RawColumns(arg.config) = {}
    /\ PanelKeys # {}

\* A matrix was returned for a panel where ticker B is listed late, leaves
\* early, or has undefined rows.
KeysKeptOnRaggedPanel ==
    /\ MatrixReturned
    /\ DOMAIN out.scores # {}
    /\ \E t \in DatesOf(arg.df.close) :
         /\ <<t, "B">> \notin PanelKeys
         /\ \E u \in DatesOf(arg.df.close) : <<u, "B">> \in PanelKeys

----------------------------------------------------------------------------
(* Properties of SpecCap.                                                   *)

CapacityReturned == fn = "compute_capacity_usage" /\ out # None

CapacityWindow ==
    IF arg.config = None THEN DefaultTCCMConfig.adv_window ELSE arg.config.adv_window

\* Ticker A's ADV window ending at date t is full.
FullAdvWindow(t) == t >= CapacityWindow /\ <<t, "A">> \in DOMAIN volume

\* Ticker A's trailing ADV at date t: the mean of its last adv_window volumes.
TrailingAdv(t) ==
    LET W == (t - CapacityWindow + 1)..t
    IN  Div(SumAll(W, [u \in W |-> volume[<<u, "A">>]]), I(CapacityWindow))

UsageOf(t) == out.capacity_usage[<<t, "A">>]

\* C16: for one ticker with a fixed non-zero position and a fixed positive
\* price, whenever the trailing ADV at a later date is strictly lower than at
\* an earlier date, both with a full window, the usage ratio at the later
\* date is strictly greater.
C16_UsageGrowsAsAdvFalls ==
    CapacityReturned =>
        \A t, u \in DatesOf(volume) :
            /\ t < u /\ FullAdvWindow(t) /\ FullAdvWindow(u)
            /\ Lt(TrailingAdv(u), TrailingAdv(t))
            => Gt(UsageOf(u), UsageOf(t))

\* The same with a later ADV that is not zero, and the ratio itself: the
\* usage is |shares| * price / ADV where the ADV is a non-zero number, and
\* undefined where the window is short or the ADV is zero.
C16_UsageGrowsAsNonZeroAdvFalls ==
    CapacityReturned =>
        /\ \A t, u \in DatesOf(volume) :
             /\ t < u /\ FullAdvWindow(t) /\ FullAdvWindow(u)
             /\ Lt(TrailingAdv(u), TrailingAdv(t))
             /\ TrailingAdv(u) # Zero
             => Gt(UsageOf(u), UsageOf(t))
        /\ \A t \in DatesOf(volume) :
             UsageOf(t) =
                 IF FullAdvWindow(t) /\ TrailingAdv(t) # Zero
                 THEN Div(Mul(AbsV(arg.positions[<<t, "A">>]), close[<<t, "A">>]),
                          TrailingAdv(t))
                 ELSE NaN

\* The ADV fell to a lower non-zero value between two dates with full
\* windows and the usage was returned.
C16_AdvFell ==
    /\ CapacityReturned
    /\ \E t, u \in DatesOf(volume) :
         /\ t < u /\ FullAdvWindow(t) /\ FullAdvWindow(u)
         /\ Lt(TrailingAdv(u), TrailingAdv(t))
         /\ TrailingAdv(u) # Zero
         /\ Gt(UsageOf(u), UsageOf(t))

----------------------------------------------------------------------------
(* Properties of SpecEM.                                                    *)

Normalized == fn = "ensure_multiindex" /\ out # None /\ out.first.outcome = "return"

NormalizedTwice == Normalized /\ out.second # None

\* The table carries date and ticker as index levels.
KeyedByDateAndTicker(df) ==
    IsMultiIndex(df.names) /\ {"date", "ticker"} \subseteq NamesOf(df.names)

\* The (date, ticker) key and the remaining column values of row i of a
\* table, wherever the table carries the date and the ticker.
KeyedRow(df, i) ==
    IF KeyedByDateAndTicker(df)
    THEN [key |-> <<df.rows[i].key[LevelOf(df.names, "date")],
                    df.rows[i].key[LevelOf(df.names, "ticker")]>>,
          cols |-> df.rows[i].cols]
    ELSE [key |-> <<df.rows[i].cols.date, df.rows[i].cols.ticker>>,
          cols |-> [c \in df.columns \ {"date", "ticker"} |-> df.rows[i].cols[c]]]

\* How many rows of the table are the row r.
Copies(df, r) == Cardinality({i \in DOMAIN df.rows : KeyedRow(df, i) = r})

\* The rows are in date-then-ticker order.
KeySorted(df) ==
    \A i, j \in DOMAIN df.rows : i < j => ~KeyBefore(df.rows[j].key, df.rows[i].key)

\* C17: ensure_multiindex is idempotent (the second result equals the
\* first: same keys in the same order, same column values), and its result
\* has exactly the key (date, ticker), date outermost, sorted, holding the
\* rows of the input, whether the input carried date and ticker as columns,
\* as a (date, ticker) key or as a (ticker, date) key.
C17_Idempotent ==
    /\ NormalizedTwice => out.second = out.first
    /\ Normalized =>
         /\ out.first.df.names = <<"date", "ticker">>
         /\ KeySorted(out.first.df)
         /\ Len(out.first.df.rows) = Len(arg.df.rows)
         /\ \A i \in DOMAIN arg.df.rows :
              Copies(out.first.df, KeyedRow(arg.df, i)) = Copies(arg.df, KeyedRow(arg.df, i))
    /\ fn = "ensure_multiindex" /\ out # None
       /\ arg.df.names \in {<<"">>, <<"date", "ticker">>, <<"ticker", "date">>}
       /\ {"date", "ticker"} \subseteq (arg.df.columns \cup NamesOf(arg.df.names))
       => out.first.outcome = "return"

\* A (ticker, date) table with rows out of order and two rows of one key
\* with different values has been normalized twice.
C17_UnsortedNormalizedTwice ==
    /\ NormalizedTwice
    /\ arg.df.names = <<"ticker", "date">>
    /\ \E i, j \in DOMAIN arg.df.rows :
         i < j /\ KeyBefore(KeyedRow(arg.df, j).key, KeyedRow(arg.df, i).key)
    /\ \E i, j \in DOMAIN arg.df.rows :
         /\ KeyedRow(arg.df, i).key = KeyedRow(arg.df, j).key
         /\ KeyedRow(arg.df, i).cols # KeyedRow(arg.df, j).cols

\* A table with neither form of date and ticker is refused.
TableRefused ==
    fn = "ensure_multiindex" /\ out # None /\ out.first.outcome = "raise"

----------------------------------------------------------------------------
(* Properties of SpecPerm.                                                  *)

\* The candidates' Sharpe values are pairwise distinct.
DistinctSharpes ==
    \A i, j \in 1..Len(candidates) :
        i # j => CandidateSharpe(i) # CandidateSharpe(j)

\* C18: for candidates of pairwise distinct Sharpe, calibrate_phase1 returns
\* the same weights and Sharpe for every permutation of the sequence; the
\* order matters only among candidates of equal Sharpe, where the first in
\* the supplied order wins.
C18_PermutationInvariant ==
    /\ Len(results) = 2 /\ DistinctSharpes => results[1] = results[2]
    /\ Len(results) = 2 => results[1].sharpe = results[2].sharpe
    /\ ReturnedIsFirstBest

\* Both calls returned, the second on the reversed sequence of two
\* candidates of distinct Sharpe.
C18_ReturnedOnReversed ==
    /\ Len(results) = 2
    /\ Len(candidates) = 2
    /\ candidates # arg.candidate_weights
    /\ DistinctSharpes
    /\ results[2].weights = candidates[2]

\* Two candidates tie and each call returned the one it was given first.
TieBrokenByOrder ==
    /\ Len(results) = 2
    /\ Len(candidates) = 2
    /\ candidates # arg.candidate_weights
    /\ results[1].weights = candidates[2]
    /\ results[2].weights = candidates[1]
    /\ results[1].weights # results[2].weights

----------------------------------------------------------------------------
(* Properties of SpecVS.                                                    *)

Validated == fn = "validate_schema" /\ out # None

SchemaColumns == {arg.schema[i][1] : i \in DOMAIN arg.schema}

\* The declared columns that the table lacks.
AbsentColumns == SchemaColumns \ DOMAIN arg.df

\* The declared columns that the table holds with another dtype.
WrongDtypeColumns ==
    {arg.schema[i][1] : i \in {j \in DOMAIN arg.schema :
                                  /\ arg.schema[j][1] \in DOMAIN arg.df
                                  /\ arg.df[arg.schema[j][1]] # arg.schema[j][2]}}

\* C19: validate_schema raises exactly when a declared column is absent or
\* present with another dtype; with both defects the missing-columns error
\* is raised; columns the schema does not name never cause a failure.
C19_RaisesExactlyOnDefect ==
    Validated =>
        /\ out.outcome = "raise" <=> AbsentColumns # {} \/ WrongDtypeColumns # {}
        /\ out.outcome = "raise" => out.error = "ValueError"
        /\ AbsentColumns # {} => out.message = [missing |-> AbsentColumns]
        /\ AbsentColumns = {} /\ WrongDtypeColumns # {} =>
               /\ out.message.column \in WrongDtypeColumns
               /\ out.message.actual = arg.df[out.message.column]

\* Both defects at once: the missing-columns error was raised, beside a
\* column the schema does not name.
C19_BothDefects ==
    /\ Validated
    /\ AbsentColumns # {}
    /\ WrongDtypeColumns # {}
    /\ DOMAIN arg.df \ SchemaColumns # {}
    /\ out.outcome = "raise"

\* A table with a column the schema does not name has passed.
ExtraColumnTolerated ==
    /\ Validated
    /\ DOMAIN arg.df \ SchemaColumns # {}
    /\ SchemaColumns # {}
    /\ out.outcome = "return"

----------------------------------------------------------------------------
(* Properties of SpecKS.                                                    *)

Decided == fn = "should_activate_kill_switch" /\ out # None

KillSwitchConfig == IF arg.config = None THEN DefaultKillSwitchConfig ELSE arg.config

\* max(atr_multiplier * ATR, hist_vol_multiplier * hist_vol_std) of two
\* numbers.
Threshold ==
    LET a == Mul(KillSwitchConfig.atr_multiplier, arg.atr)
        h == Mul(KillSwitchConfig.hist_vol_multiplier, arg.hist_vol_std)
    IN  IF Le(a, h) THEN h ELSE a

AllDefined == ~IsNaN(arg.sector_drop_1w) /\ ~IsNaN(arg.atr) /\ ~IsNaN(arg.hist_vol_std)

\* C20: should_activate_kill_switch is true exactly when the drop is
\* strictly greater than max(atr_multiplier * ATR, hist_vol_multiplier *
\* hist_vol_std) and false at or below it; with the default multipliers it
\* is true for drop 0.05, ATR 0.01, stdev 0.015.
C20_ActiveAboveThreshold ==
    Decided =>
        /\ AllDefined => (out.active <=> Gt(arg.sector_drop_1w, Threshold))
        /\ /\ arg.sector_drop_1w = Q(5, 100)
           /\ arg.atr = Q(1, 100)
           /\ arg.hist_vol_std = Q(15, 1000)
           /\ arg.config = None
           => out.active /\ Threshold = Q(225, 10000)

\* The drop equals the threshold and the switch stayed off.
C20_OffAtThreshold ==
    /\ Decided
    /\ AllDefined
    /\ arg.sector_drop_1w = Threshold
    /\ Threshold # Zero
    /\ ~out.active

\* The specification's example has activated the switch.
ExampleActivates ==
    /\ Decided
    /\ arg.sector_drop_1w = Q(5, 100)
    /\ arg.atr = Q(1, 100)
    /\ arg.hist_vol_std = Q(15, 1000)
    /\ arg.config = None
    /\ out.active

\* With an undefined input the switch is never on except where only the
\* stdev is undefined, which max() then leaves out of the threshold.
UndefinedInputs ==
    Decided /\ ~AllDefined =>
        (out.active <=>
            /\ IsNaN(arg.hist_vol_std)
            /\ Gt(arg.sector_drop_1w, Mul(KillSwitchConfig.atr_multiplier, arg.atr)))

----------------------------------------------------------------------------
(* Properties of SpecRaw.                                                   *)

RawReturned == fn \in FactorModules /\ out # None

\* The sub-indicators of the module that was called.
ModuleIndicators ==
    IF fn = "compute_rs_score" THEN RSIndicators(arg.df, DefaultRSConfig)
    ELSE IF fn = "compute_trend_score" THEN TrendIndicators(arg.df, DefaultTrendConfig)
    ELSE IF fn = "compute_squeeze_score"
    THEN SqueezeIndicators(arg.df, DefaultSqueezeConfig)
    ELSE IF fn = "compute_momentum_score"
    THEN MomentumIndicators(arg.df, DefaultMomentumConfig)
    ELSE VolumeIndicators(arg.df, DefaultVolumeConfig)

\* The weights of the module's linear blend.
ModuleWeights ==
    IF fn = "compute_rs_score"
    THEN [rs_short |-> Q(1, 10), rs_mid |-> Q(3, 10), rs_long |-> Q(3, 10),
          rs_vlong |-> Q(3, 10)]
    ELSE IF fn = "compute_trend_score"
    THEN [cross_state |-> Q(35, 100), dist_long |-> Q(25, 100),
          slope_med |-> Q(2, 10), slope_long |-> Q(1, 10), pos_short |-> Q(1, 10)]
    ELSE IF fn = "compute_squeeze_score"
    THEN [squeeze_flag |-> Q(4, 10), vol_ratio |-> Q(-3, 10),
          range_over_atr |-> Q(3, 10)]
    ELSE IF fn = "compute_momentum_score"
    THEN [roc_short |-> Q(6, 10), roc_long |-> Q(4, 10)]
    ELSE [vol_ratio_short |-> Q(35, 100), vol_ratio_long |-> Q(25, 100),
          vol_roc |-> Q(25, 100), divergence |-> Q(-15, 100)]

\* The weighted sum of the sub-indicators that are defined at the key.
BlendOfDefined(key) ==
    LET names == DOMAIN ModuleWeights
    IN  SumAll(names, [n \in names |->
                          Mul(ModuleWeights[n], Fill0(At(ModuleIndicators[n], key)))])

\* Some sub-indicator of the module is undefined at the key.
SomeUndefined(key) ==
    \E n \in DOMAIN ModuleWeights : IsNaN(At(ModuleIndicators[n], key))

\* C21: in every factor module an undefined sub-indicator contributes 0 to
\* the blend: the raw value is defined at every (date, ticker) of the panel
\* and equals the weighted sum of the sub-indicators defined there.
C21_UndefinedContributesZero ==
    RawReturned =>
        /\ DOMAIN out.raw = PanelKeys
        /\ \A key \in PanelKeys :
             /\ ~IsNaN(out.raw[key])
             /\ out.raw[key] = BlendOfDefined(key)

\* What the code does: the claim holds in the four modules that fill their
\* terms, and the RS raw value is undefined wherever one of its horizons is.
FilledModulesBlendDefined ==
    RawReturned =>
        /\ DOMAIN out.raw = PanelKeys
        /\ \A key \in PanelKeys :
             IF fn = "compute_rs_score" /\ SomeUndefined(key)
             THEN IsNaN(out.raw[key])
             ELSE ~IsNaN(out.raw[key]) /\ out.raw[key] = BlendOfDefined(key)

\* The RS module returned an undefined raw value on a panel of defined
\* prices, where its short horizon is defined.
C21_UndefinedRSRaw ==
    /\ RawReturned
    /\ fn = "compute_rs_score"
    /\ \A key \in PanelKeys : IsFin(arg.df.close[key])
    /\ \E key \in PanelKeys :
         /\ IsNaN(out.raw[key])
         /\ ~IsNaN(ModuleIndicators.rs_short[key])

\* A filling module returned a non-zero raw value where one of its
\* sub-indicators is undefined.
FilledOverUndefined ==
    /\ RawReturned
    /\ fn # "compute_rs_score"
    /\ \E key \in PanelKeys :
         /\ SomeUndefined(key)
         /\ out.raw[key] # Zero

----------------------------------------------------------------------------
(* Properties of SpecPos.                                                   *)

PositionsReturned == fn = "_positions_from_scores" /\ out # None

\* The ticker's composite score on the date is a number other than 0.
NonZeroScore(key) == IsFin(At(arg.scores, key)) /\ At(arg.scores, key) # Zero

\* |shares * price| of one key; 0 shares are worth 0 at any price.
DollarsHeld(key) ==
    IF At(out.position, key) = Zero THEN Zero
    ELSE AbsV(Mul(At(out.position, key), At(arg.prices, key)))

\* The sum over tickers of |shares * price| on the date.
GrossNotional(date) ==
    LET keys == {key \in DOMAIN out.position : key[1] = date}
    IN  SumAll(keys, [key \in keys |-> DollarsHeld(key)])

\* C22: per date, the sum over tickers of |shares * price| never exceeds 1
\* and equals 1 when some composite score is non-zero and every ticker of a
\* non-zero score has a positive defined price; every share count is 0 on a
\* date whose scores are all zero; a ticker whose price is zero or undefined
\* holds 0 shares.
C22_UnitNotional ==
    PositionsReturned =>
        /\ DOMAIN arg.scores \subseteq DOMAIN out.position
        /\ \A date \in DatesOf(arg.scores) :
             LET keys == {date} \X {"A", "B"}
             IN  /\ Le(GrossNotional(date), One)
                 /\ (/\ \E key \in keys : NonZeroScore(key)
                     /\ \A key \in keys :
                          NonZeroScore(key) => Gt(At(arg.prices, key), Zero))
                    => GrossNotional(date) = One
                 /\ (\A key \in keys \cap DOMAIN arg.scores : arg.scores[key] = Zero)
                    => \A key \in keys : At(out.position, key) \in {Zero, NaN}
        /\ \A key \in DOMAIN out.position :
             ~Gt(At(arg.prices, key), Zero) /\ ~Lt(At(arg.prices, key), Zero)
             => out.position[key] = Zero
        /\ \A key \in DOMAIN out.position : ~IsNaN(out.position[key])

\* Positions were returned for a panel with a full-notional date, a date of
\* all-zero scores and a date where a scored ticker has no usable price.
C22_AllCases ==
    /\ PositionsReturned
    /\ \E date \in DatesOf(arg.scores) :
         /\ GrossNotional(date) = One
         /\ out.position[<<date, "A">>] # Zero
         /\ At(out.position, <<date, "B">>) # Zero
    /\ \E date \in DatesOf(arg.scores) :
         \A key \in {date} \X {"A", "B"} : At(arg.scores, key) = Zero
    /\ \E key \in DOMAIN arg.scores :
         /\ NonZeroScore(key)
         /\ ~Gt(At(arg.prices, key), Zero)
         /\ out.position[key] = Zero
         /\ Lt(GrossNotional(key[1]), One)

----------------------------------------------------------------------------
(* Properties of SpecPanel.                                                 *)

PanelCalled == fn = "backtest_weights(df)" /\ out # None

PanelReturned == PanelCalled /\ out.outcome = "return"

SingleTicker == TickersOf(close) = {"A"}

\* Every value of the series is 0.
AllZero(series) == \A key \in DOMAIN series : series[key] = Zero

\* C23: on a single-ticker panel every factor score is 0 on every date,
\* hence every target position and every trade cost is 0 and
\* backtest_weights returns a Sharpe of exactly 0, for every weight vector
\* and every TCCM configuration.
C23_SingleTickerAllZero ==
    PanelCalled /\ SingleTicker =>
        /\ out.outcome = "return"
        /\ \A col \in DOMAIN factor_scores : AllZero(factor_scores[col])
        /\ AllZero(out.positions)
        /\ AllZero(out.trade_costs)
        /\ out.sharpe = Zero

\* What the code does on a single-ticker panel: the scores are 0; a call
\* that returns has positions 0; with impact_alpha > 0 the costs and the
\* Sharpe are 0; the call raises exactly for a vector naming no score column.
SingleTickerZeroWithImpactAlpha ==
    PanelCalled /\ SingleTicker =>
        /\ \A col \in DOMAIN factor_scores : AllZero(factor_scores[col])
        /\ out.outcome = "raise" <=> KnownCols(arg.weights, factor_scores) = {}
        /\ out.outcome = "return" =>
             /\ AllZero(out.positions)
             /\ callerCfg.tc_config.impact_alpha > 0 =>
                  AllZero(out.trade_costs) /\ out.sharpe = Zero

\* A single-ticker panel was backtested with impact_alpha = 0: a trade cost
\* was charged on zero positions and the Sharpe is not 0.
C23_CostOnZeroPositions ==
    /\ PanelReturned
    /\ SingleTicker
    /\ AllZero(out.positions)
    /\ callerCfg.tc_config.impact_alpha = 0
    /\ \E key \in DOMAIN out.trade_costs : out.trade_costs[key] # Zero
    /\ out.sharpe # Zero

\* A single-ticker panel was backtested with a vector naming no score
\* column, and the call raised.
SingleTickerRaised ==
    /\ PanelCalled
    /\ SingleTicker
    /\ out.outcome = "raise"

\* A single-ticker panel long enough for the volatility proxy was
\* backtested under the default configuration.
SingleTickerReturnedZero ==
    /\ PanelReturned
    /\ SingleTicker
    /\ Cardinality(DatesOf(close)) > VolWindow
    /\ arg.bt_config.tc_config = None
    /\ out.sharpe = Zero

\* The number of observations the ticker has up to the key's date.
ObservationsSoFar(key) ==
    Cardinality({k \in DOMAIN close : k[2] = key[2] /\ k[1] <= key[1]})

\* Fewer observations than the RS module's longest horizon needs (253 in
\* the code).
ShortHistory(key) == ObservationsSoFar(key) < DefaultRSConfig.very_long_window + 1

\* A score column the weight vector names is undefined at the key.
NamedScoreUndefined(key) ==
    \E col \in KnownCols(arg.weights, factor_scores) : IsNaN(At(factor_scores[col], key))

MultiTicker == Cardinality(TickersOf(close)) >= 2

\* C24: a ticker's target position is 0 wherever a factor score the weight
\* vector names, even with weight 0, is undefined; on a multi-ticker panel
\* with a vector naming RS_score every ticker with fewer observations than
\* the longest RS horizon needs has position 0, and a panel in which no
\* ticker has that many yields all-zero positions and Sharpe 0.
C24_ZeroWhereScoreUndefined ==
    PanelReturned =>
        /\ \A key \in DOMAIN close :
             NamedScoreUndefined(key) => At(out.positions, key) = Zero
        /\ MultiTicker /\ "RS_score" \in DOMAIN arg.weights =>
             /\ \A key \in DOMAIN close :
                  ShortHistory(key) => At(out.positions, key) = Zero
             /\ (\A key \in DOMAIN close : ShortHistory(key)) =>
                  AllZero(out.positions) /\ out.sharpe = Zero

\* What the code does: the same, with the Sharpe of the all-zero positions
\* 0 under impact_alpha > 0.
ZeroWhereScoreUndefinedWithImpactAlpha ==
    PanelReturned =>
        /\ \A key \in DOMAIN close :
             NamedScoreUndefined(key) => At(out.positions, key) = Zero
        /\ MultiTicker /\ "RS_score" \in DOMAIN arg.weights =>
             /\ \A key \in DOMAIN close :
                  ShortHistory(key) => At(out.positions, key) = Zero
             /\ (\A key \in DOMAIN close : ShortHistory(key)) =>
                  /\ AllZero(out.positions)
                  /\ callerCfg.tc_config.impact_alpha > 0 => out.sharpe = Zero

\* A multi-ticker panel where no ticker has enough observations for the RS
\* score was backtested with a vector naming RS_score under impact_alpha =
\* 0: the positions are all 0 and the Sharpe is not.
C24_ShortPanelNonZeroSharpe ==
    /\ PanelReturned
    /\ MultiTicker
    /\ "RS_score" \in DOMAIN arg.weights
    /\ \A key \in DOMAIN close : ShortHistory(key)
    /\ AllZero(out.positions)
    /\ out.sharpe # Zero

\* A vector naming RS_score with weight 0 left a position at 0 where the
\* RS score is undefined and the Momentum score is not 0.
ZeroWeightStillZeroes ==
    /\ PanelReturned
    /\ arg.weights = [RS_score |-> Zero, Momentum_score |-> One]
    /\ \E key \in DOMAIN close :
         /\ IsNaN(factor_scores.RS_score[key])
         /\ factor_scores.Momentum_score[key] # Zero
         /\ out.positions[key] = Zero

\* A vector naming RS_score took a position in a ticker with enough
\* observations, beside one with a short history held at 0.
LongHistoryHeld ==
    /\ PanelReturned
    /\ "RS_score" \in DOMAIN arg.weights
    /\ \E key \in DOMAIN close : ~ShortHistory(key) /\ out.positions[key] # Zero

====
